---- MODULE Spec2Model ----
(***************************************************************************)
(* Document ingestion pipeline of PageNode (backend/app):                  *)
(*   services/task_registry.py  start_task, recover_stuck_documents        *)
(*   services/ingestion.py      process_document, run_llm_stage_for_doc,   *)
(*                              _run_llm_stage, _set_status                *)
(*   db/sqlite.py               documents / chunks / flashcards / settings *)
(*   routers/upload.py          upload_document                            *)
(*   routers/setup.py           update_setting                             *)
(*                                                                         *)
(* Every coroutine is cut at its awaits: one action per stretch of code    *)
(* between two suspension points that touch modelled state.  A process     *)
(* crash loses all in-memory state (tasks, registry) and keeps the stores. *)
(* Stage work (extraction, chunk insert, vector add, the LLM sub-stages,   *)
(* the document read of the recovery rerun) may raise; the status UPDATE   *)
(* itself is taken to commit.                                              *)
(*                                                                         *)
(* Further specifications over the same variables, each with the others'   *)
(* parts idle:                                                             *)
(*   LiveSpec     the pipeline under weak fairness of the sweep and of     *)
(*                every task's steps                                       *)
(*   DeleteSpec   the pipeline plus DELETE /documents/{id}                 *)
(*   ChunkerSpec  services/chunker.py, one call of chunk_pages             *)
(*   Sm2Spec      routers/quiz.py, one call of _compute_sm2                *)
(*   QuizSpec     routers/quiz.py review_card / remove_card, the card      *)
(*                insert of services/flashcard_generator.py, the mastery   *)
(*                update of db/kuzu_.py                                    *)
(*   ExtractSpec  services/concept_extractor.py and the graph helpers of   *)
(*                db/kuzu_.py, one run per document                        *)
(***************************************************************************)
EXTENDS Integers, Sequences, FiniteSets, Bags, TLC

(* ---------- bounds ---------- *)
Docs == {"d1"}
DocOrder == <<"d1">>
MaxChunks == 2
MaxCrashes == 1
MaxSettingWrites == 1

(* ingestion.py:23 is 100; scaled so that a document of MaxChunks chunks   *)
(* needs more than one collection.add batch.                               *)
CHROMA_BATCH_SIZE == 1

(* concept_extractor.py:30 / flashcard_generator.py:23 : LIMIT of the      *)
(* sub-stage chunk queries.                                                *)
CONCEPT_MAX_CHUNKS == 20
FLASHCARD_MAX_CHUNKS == 10

(* ---------- state ---------- *)
VARIABLES
  status,      \* documents.status per document id ("absent": no row yet,
               \* "deleted": row deleted; ids are uuid4, never used again)
  file,        \* what extract_pdf yields for the stored file
  chunks,      \* rows of table chunks
  vectors,     \* entries of the Chroma collection
  flashcards,  \* rows of table flashcards: bag of their chunk_id (one document_id per chunk)
  settings,    \* settings rows llm_model_id / llm_model_path (non-empty?)
  next_uuid,   \* uuid4 source, per document
  tasks,       \* asyncio tasks created since process start
  registry,    \* _running_tasks: doc id -> task (0: no entry)
  phase,       \* lifespan position
  crashes,     \* process crashes so far
  setting_writes,
  cards,       \* rows of table flashcards with their scheduling columns
  concepts,    \* Concept nodes of the graph: mastery, review_count, attribution
  requests,    \* POST /quiz/{id}/review requests in flight
  today,       \* date.today(), as a day number
  submitted,   \* review requests received so far
  sm2,         \* one call of _compute_sm2: its arguments and its result
  ck,          \* one call of chunk_pages: its arguments, locals and result
  ex           \* the concept graph and the runs of extract_concepts_for_document

pipeline_vars == <<status, file, chunks, vectors, flashcards, settings, next_uuid,
                   tasks, registry, phase, crashes, setting_writes>>

quiz_vars == <<cards, concepts, requests, today, submitted>>

(* state the ingestion pipeline never touches *)
outside_pipeline == <<quiz_vars, sm2, ck, ex>>

(* state the concept extraction never touches *)
outside_extract == <<pipeline_vars, quiz_vars, sm2, ck>>

vars == <<pipeline_vars, quiz_vars, sm2, ck, ex>>

stores == <<status, file, chunks, vectors, flashcards, settings, next_uuid>>

DocumentStatus ==
  {"pending", "extracting", "chunking", "embedding", "extracting_concepts",
   "concepts_ready", "ready", "needs_ocr", "error"}

(* the pipeline order of the statuses *)
StatusOrder ==
  <<"pending", "extracting", "chunking", "embedding", "extracting_concepts",
    "concepts_ready", "ready">>

Rank(s) == CHOOSE i \in 1..Len(StatusOrder) : StatusOrder[i] = s

Ordered(s) == \E i \in 1..Len(StatusOrder) : StatusOrder[i] = s

(* mutant: the first sweep forgets the embedding stage *)
STUCK_PIPELINE_NoEmbedding == {"extracting", "chunking"}

(* statuses queried by the two sweeps of recover_stuck_documents *)
STUCK_PIPELINE == {"extracting", "chunking", "embedding"}

STUCK_LLM == {"extracting_concepts"}

(* mutant: the second sweep restarts the full pipeline *)
RecoverLlmCoroutine_Full == "process_document"

(* coroutine started by the second sweep *)
RecoverLlmCoroutine == "run_llm_stage_for_doc"

(* extract_pdf result for a file: needs_ocr, and the number of chunks    *)
(* chunk_pages makes of its pages (not looked at when needs_ocr)          *)
FileKinds ==
  {[needs_ocr |-> TRUE, n |-> 0]} \cup {[needs_ocr |-> FALSE, n |-> k] : k \in 0..MaxChunks}

Min(a, b) == IF a < b THEN a ELSE b

(* ---------- tasks ---------- *)
NewTask(d, coro, origin) ==
  [doc |-> d, coro |-> coro, origin |-> origin,
   pc |-> IF coro = "process_document" THEN "set_extracting" ELSE "get_document",
   needs_ocr |-> FALSE, n |-> 0, chunk_ids |-> <<>>, i |-> 0, adds |-> 0,
   llm_model_id |-> FALSE, llm_model_path |-> FALSE,
   rows |-> <<>>, k |-> 0, raised |-> "none", set_llm |-> FALSE, soft |-> {},
   llm_called |-> FALSE, callback_ran |-> FALSE]

TaskIds == 1..Len(tasks)

Done(t) == tasks[t].pc = "done"

(* executions of document d that are in flight *)
Active(d) == {t \in TaskIds : tasks[t].doc = d /\ ~Done(t)}

(* start_task: create the task, overwrite the registry entry; no check   *)
(* of an entry already present.  st is [tasks, registry].                 *)
start_task(st, d, coro, origin) ==
  [tasks |-> Append(st.tasks, NewTask(d, coro, origin)),
   registry |-> [st.registry EXCEPT ![d] = Len(st.tasks) + 1]]

is_processing(d) == registry[d] # 0 /\ ~Done(registry[d])

(* the for-loops of recover_stuck_documents: start_task for each row *)
RECURSIVE StartAll(_, _, _, _, _)
StartAll(ds, j, st, coro, origin) ==
  IF j > Len(ds) THEN st
  ELSE StartAll(ds, j + 1, start_task(st, ds[j], coro, origin), coro, origin)

(* find_documents_by_status: the matching documents, in table order *)
find_documents_by_status(statuses) ==
  SelectSeq(DocOrder, LAMBDA d : status[d] \in statuses)

(* ---------- initial state: first start on empty stores ---------- *)
PipelineInit ==
  /\ status = [d \in Docs |-> "absent"]
  /\ file = [d \in Docs |-> [needs_ocr |-> FALSE, n |-> 0]]
  /\ chunks = {}
  /\ vectors = {}
  /\ flashcards = EmptyBag
  /\ settings = [llm_model_id |-> FALSE, llm_model_path |-> FALSE]
  /\ next_uuid = [d \in Docs |-> 1]
  /\ tasks = <<>>
  /\ registry = [d \in Docs |-> 0]
  /\ phase = "recover_pipeline"
  /\ crashes = 0
  /\ setting_writes = 0

(* ---------- helpers of the stores ---------- *)
(* UPDATE documents SET status = ? WHERE id = ?  (no row: nothing changes) *)
SetStatus(d, s) ==
  status' = IF status[d] = "deleted" THEN status ELSE [status EXCEPT ![d] = s]

ChunkRows(d) == {c \in chunks : c.document_id = d}

(* insert_chunks: one row per chunk, chunk_index as chunk_pages numbered  *)
(* it (0..n-1), has_embedding 0, fresh uuid4 ids; one commit.             *)
NewChunkIds(d, n) == [j \in 1..n |-> <<d, next_uuid[d] + j - 1>>]

insert_chunks(d, ids) ==
  chunks \cup {[id |-> ids[j], document_id |-> d, chunk_index |-> j - 1,
                has_embedding |-> FALSE] : j \in 1..Len(ids)}

(* update_chunks_embedding: UPDATE chunks SET has_embedding = 1 WHERE     *)
(* document_id = ?                                                        *)
update_chunks_embedding(d) ==
  {IF c.document_id = d THEN [c EXCEPT !.has_embedding = TRUE] ELSE c : c \in chunks}

(* SELECT id FROM chunks WHERE document_id = ? AND has_embedding = 1      *)
(* ORDER BY chunk_index LIMIT ?  (ties in rowid = insertion order)        *)
RowLess(a, b) ==
  \/ a.chunk_index < b.chunk_index
  \/ a.chunk_index = b.chunk_index /\ a.id[2] < b.id[2]

RECURSIVE SortRows(_)
SortRows(S) ==
  IF S = {} THEN <<>>
  ELSE LET m == CHOOSE x \in S : \A y \in S \ {x} : RowLess(x, y)
       IN <<m.id>> \o SortRows(S \ {m})

EmbeddedRows(d, limit) ==
  LET all == SortRows({c \in ChunkRows(d) : c.has_embedding})
  IN SubSeq(all, 1, Min(limit, Len(all)))

(* mutant: both settings required *)
LlmConfigured_And(model_id, model_path) == model_id /\ model_path

(* if llm_model_id or llm_model_path *)
LlmConfigured(model_id, model_path) == model_id \/ model_path

Step(t, r) == tasks' = [tasks EXCEPT ![t] = r]

(* the coroutine returns: its locals are gone, the task is done *)
Return(r) ==
  [r EXCEPT !.pc = "done", !.n = 0, !.i = 0, !.rows = <<>>, !.k = 0,
            !.llm_model_id = FALSE, !.llm_model_path = FALSE]

(* ---------- process_document (ingestion.py:26-142) ---------- *)
IsAt(t, coro, pc) == tasks[t].coro = coro /\ tasks[t].pc = pc

(* await _set_status(db, doc_id, "extracting") *)
P_SetExtracting(t) ==
  /\ IsAt(t, "process_document", "set_extracting")
  /\ SetStatus(tasks[t].doc, "extracting")
  /\ Step(t, [tasks[t] EXCEPT !.pc = "extract"])
  /\ UNCHANGED <<file, chunks, vectors, flashcards, settings, next_uuid,
                 registry, phase, crashes, setting_writes, outside_pipeline>>

(* get_document, extract_pdf in a thread, metadata UPDATE, TOC insert *)
P_Extract(t) ==
  /\ IsAt(t, "process_document", "extract")
  /\ status[tasks[t].doc] # "deleted"
  /\ Step(t, [tasks[t] EXCEPT !.pc = "after_extract",
                             !.needs_ocr = file[tasks[t].doc].needs_ocr,
                             !.n = file[tasks[t].doc].n])
  /\ UNCHANGED <<stores, registry, phase, crashes, setting_writes, outside_pipeline>>

P_ExtractRaises(t) ==
  /\ IsAt(t, "process_document", "extract")
  /\ Step(t, [tasks[t] EXCEPT !.pc = "except", !.raised = "extract"])
  /\ UNCHANGED <<stores, registry, phase, crashes, setting_writes, outside_pipeline>>

(* mutant: the return after needs_ocr is missing *)
P_NeedsOcr_NoReturn(t) ==
  /\ IsAt(t, "process_document", "after_extract")
  /\ tasks[t].needs_ocr
  /\ SetStatus(tasks[t].doc, "needs_ocr")
  /\ Step(t, [tasks[t] EXCEPT !.pc = "chunk"])
  /\ UNCHANGED <<file, chunks, vectors, flashcards, settings, next_uuid,
                 registry, phase, crashes, setting_writes, outside_pipeline>>

(* if extraction.needs_ocr: _set_status("needs_ocr"); return *)
P_NeedsOcr(t) ==
  /\ IsAt(t, "process_document", "after_extract")
  /\ tasks[t].needs_ocr
  /\ SetStatus(tasks[t].doc, "needs_ocr")
  /\ Step(t, Return(tasks[t]))
  /\ UNCHANGED <<file, chunks, vectors, flashcards, settings, next_uuid,
                 registry, phase, crashes, setting_writes, outside_pipeline>>

(* await _set_status(db, doc_id, "chunking") *)
P_SetChunking(t) ==
  /\ IsAt(t, "process_document", "after_extract")
  /\ ~tasks[t].needs_ocr
  /\ SetStatus(tasks[t].doc, "chunking")
  /\ Step(t, [tasks[t] EXCEPT !.pc = "chunk"])
  /\ UNCHANGED <<file, chunks, vectors, flashcards, settings, next_uuid,
                 registry, phase, crashes, setting_writes, outside_pipeline>>

(* mutant: the return after the zero-chunk case is missing *)
P_NoChunks_NoReturn(t) ==
  /\ IsAt(t, "process_document", "chunk")
  /\ tasks[t].n = 0
  /\ SetStatus(tasks[t].doc, "ready")
  /\ Step(t, [tasks[t] EXCEPT !.pc = "set_embedding"])
  /\ UNCHANGED <<file, chunks, vectors, flashcards, settings, next_uuid,
                 registry, phase, crashes, setting_writes, outside_pipeline>>

(* chunks = chunk_pages(...); if not chunks: _set_status("ready"); return *)
P_NoChunks(t) ==
  /\ IsAt(t, "process_document", "chunk")
  /\ tasks[t].n = 0
  /\ SetStatus(tasks[t].doc, "ready")
  /\ Step(t, Return(tasks[t]))
  /\ UNCHANGED <<file, chunks, vectors, flashcards, settings, next_uuid,
                 registry, phase, crashes, setting_writes, outside_pipeline>>

(* chunk_ids = await insert_chunks(db, doc_id, chunks); the INSERT needs   *)
(* the documents row (foreign key, PRAGMA foreign_keys=ON)                *)
P_InsertChunks(t) ==
  /\ IsAt(t, "process_document", "chunk")
  /\ tasks[t].n > 0
  /\ status[tasks[t].doc] # "deleted"
  /\ LET d == tasks[t].doc
         ids == NewChunkIds(d, tasks[t].n)
     IN /\ chunks' = insert_chunks(d, ids)
        /\ next_uuid' = [next_uuid EXCEPT ![d] = @ + tasks[t].n]
        /\ Step(t, [tasks[t] EXCEPT !.pc = "set_embedding", !.chunk_ids = ids])
  /\ UNCHANGED <<status, file, vectors, flashcards, settings,
                 registry, phase, crashes, setting_writes, outside_pipeline>>

P_InsertChunksRaises(t) ==
  /\ IsAt(t, "process_document", "chunk")
  /\ tasks[t].n > 0
  /\ Step(t, [tasks[t] EXCEPT !.pc = "except", !.raised = "insert_chunks"])
  /\ UNCHANGED <<stores, registry, phase, crashes, setting_writes, outside_pipeline>>

(* mutant: the embedding stage announces itself with the wrong status *)
P_SetEmbedding_Extracting(t) ==
  /\ IsAt(t, "process_document", "set_embedding")
  /\ SetStatus(tasks[t].doc, "extracting")
  /\ Step(t, [tasks[t] EXCEPT !.pc = "purge"])
  /\ UNCHANGED <<file, chunks, vectors, flashcards, settings, next_uuid,
                 registry, phase, crashes, setting_writes, outside_pipeline>>

(* await _set_status(db, doc_id, "embedding") *)
P_SetEmbedding(t) ==
  /\ IsAt(t, "process_document", "set_embedding")
  /\ SetStatus(tasks[t].doc, "embedding")
  /\ Step(t, [tasks[t] EXCEPT !.pc = "purge"])
  /\ UNCHANGED <<file, chunks, vectors, flashcards, settings, next_uuid,
                 registry, phase, crashes, setting_writes, outside_pipeline>>

(* mutant: the purge deletes nothing *)
P_Purge_Nothing(t) ==
  /\ IsAt(t, "process_document", "purge")
  /\ Step(t, [tasks[t] EXCEPT !.pc = "add"])
  /\ UNCHANGED <<stores, registry, phase, crashes, setting_writes, outside_pipeline>>

(* collection.delete(where={"document_id": doc_id}) *)
P_Purge(t) ==
  /\ IsAt(t, "process_document", "purge")
  /\ vectors' = {v \in vectors : v.document_id # tasks[t].doc}
  /\ Step(t, [tasks[t] EXCEPT !.pc = "add"])
  /\ UNCHANGED <<status, file, chunks, flashcards, settings, next_uuid,
                 registry, phase, crashes, setting_writes, outside_pipeline>>

(* except Exception: pass *)
P_PurgeRaises(t) ==
  /\ IsAt(t, "process_document", "purge")
  /\ Step(t, [tasks[t] EXCEPT !.pc = "add", !.soft = @ \cup {"purge_failed"}])
  /\ UNCHANGED <<stores, registry, phase, crashes, setting_writes, outside_pipeline>>

(* one turn of  for i in range(0, len(chunks), CHROMA_BATCH_SIZE):        *)
(*   await asyncio.to_thread(collection.add, ids=chunk_ids[i:i+B], ...)   *)
P_AddBatch(t) ==
  /\ IsAt(t, "process_document", "add")
  /\ tasks[t].i < tasks[t].n
  /\ LET hi == Min(tasks[t].i + CHROMA_BATCH_SIZE, tasks[t].n)
     IN vectors' = vectors \cup
          {[id |-> tasks[t].chunk_ids[j], document_id |-> tasks[t].doc]
             : j \in (tasks[t].i + 1)..hi}
  /\ Step(t, [tasks[t] EXCEPT !.i = @ + CHROMA_BATCH_SIZE, !.adds = @ + 1])
  /\ UNCHANGED <<status, file, chunks, flashcards, settings, next_uuid,
                 registry, phase, crashes, setting_writes, outside_pipeline>>

(* mutant: a failed batch is skipped and the loop goes on *)
P_AddBatchRaises_Swallowed(t) ==
  /\ IsAt(t, "process_document", "add")
  /\ tasks[t].i < tasks[t].n
  /\ Step(t, [tasks[t] EXCEPT !.i = @ + CHROMA_BATCH_SIZE, !.raised = "add"])
  /\ UNCHANGED <<stores, registry, phase, crashes, setting_writes, outside_pipeline>>

P_AddBatchRaises(t) ==
  /\ IsAt(t, "process_document", "add")
  /\ tasks[t].i < tasks[t].n
  /\ Step(t, [tasks[t] EXCEPT !.pc = "except", !.raised = "add"])
  /\ UNCHANGED <<stores, registry, phase, crashes, setting_writes, outside_pipeline>>

(* await update_chunks_embedding(db, doc_id) *)
P_FlagEmbedded(t) ==
  /\ IsAt(t, "process_document", "add")
  /\ tasks[t].i >= tasks[t].n
  /\ chunks' = update_chunks_embedding(tasks[t].doc)
  /\ Step(t, [tasks[t] EXCEPT !.pc = "read_model_id"])
  /\ UNCHANGED <<status, file, vectors, flashcards, settings, next_uuid,
                 registry, phase, crashes, setting_writes, outside_pipeline>>

(* llm_model_id = (await get_setting(db, "llm_model_id")) or "" *)
P_ReadModelId(t) ==
  /\ IsAt(t, "process_document", "read_model_id")
  /\ Step(t, [tasks[t] EXCEPT !.pc = "read_model_path",
                             !.llm_model_id = settings.llm_model_id])
  /\ UNCHANGED <<stores, registry, phase, crashes, setting_writes, outside_pipeline>>

(* llm_model_path = (await get_setting(db, "llm_model_path")) or "" *)
P_ReadModelPath(t) ==
  /\ IsAt(t, "process_document", "read_model_path")
  /\ Step(t, [tasks[t] EXCEPT !.pc = "decide",
                             !.llm_model_path = settings.llm_model_path])
  /\ UNCHANGED <<stores, registry, phase, crashes, setting_writes, outside_pipeline>>

(* if llm_model_id or llm_model_path: _run_llm_stage -> first await is    *)
(* _set_status("extracting_concepts")                                     *)
P_RunLlmStage(t) ==
  /\ IsAt(t, "process_document", "decide")
  /\ LlmConfigured(tasks[t].llm_model_id, tasks[t].llm_model_path)
  /\ SetStatus(tasks[t].doc, "extracting_concepts")
  /\ Step(t, [tasks[t] EXCEPT !.pc = "concepts_query", !.set_llm = TRUE])
  /\ UNCHANGED <<file, chunks, vectors, flashcards, settings, next_uuid,
                 registry, phase, crashes, setting_writes, outside_pipeline>>

(* else: _set_status("ready") *)
P_NoLlm(t) ==
  /\ IsAt(t, "process_document", "decide")
  /\ ~LlmConfigured(tasks[t].llm_model_id, tasks[t].llm_model_path)
  /\ SetStatus(tasks[t].doc, "ready")
  /\ Step(t, Return(tasks[t]))
  /\ UNCHANGED <<file, chunks, vectors, flashcards, settings, next_uuid,
                 registry, phase, crashes, setting_writes, outside_pipeline>>

(* except Exception: ... _set_status(db, doc_id, "error") *)
P_SetError(t) ==
  /\ IsAt(t, "process_document", "except")
  /\ SetStatus(tasks[t].doc, "error")
  /\ Step(t, Return(tasks[t]))
  /\ UNCHANGED <<file, chunks, vectors, flashcards, settings, next_uuid,
                 registry, phase, crashes, setting_writes, outside_pipeline>>

(* ---------- run_llm_stage_for_doc (ingestion.py:145-166) ---------- *)
(* doc = await get_document(db, doc_id) *)
L_GetDocument(t) ==
  /\ IsAt(t, "run_llm_stage_for_doc", "get_document")
  /\ status[tasks[t].doc] # "deleted"
  /\ Step(t, [tasks[t] EXCEPT !.pc = "set_extracting_concepts"])
  /\ UNCHANGED <<stores, registry, phase, crashes, setting_writes, outside_pipeline>>

L_GetDocumentRaises(t) ==
  /\ IsAt(t, "run_llm_stage_for_doc", "get_document")
  /\ Step(t, [tasks[t] EXCEPT !.pc = "except", !.raised = "get_document"])
  /\ UNCHANGED <<stores, registry, phase, crashes, setting_writes, outside_pipeline>>

(* _run_llm_stage: await _set_status(db, doc_id, "extracting_concepts") *)
L_RunLlmStage(t) ==
  /\ IsAt(t, "run_llm_stage_for_doc", "set_extracting_concepts")
  /\ SetStatus(tasks[t].doc, "extracting_concepts")
  /\ Step(t, [tasks[t] EXCEPT !.pc = "concepts_query", !.set_llm = TRUE])
  /\ UNCHANGED <<file, chunks, vectors, flashcards, settings, next_uuid,
                 registry, phase, crashes, setting_writes, outside_pipeline>>

(* except Exception: ... _set_status(db, doc_id, "ready") *)
L_Fallback(t) ==
  /\ IsAt(t, "run_llm_stage_for_doc", "except")
  /\ SetStatus(tasks[t].doc, "ready")
  /\ Step(t, Return(tasks[t]))
  /\ UNCHANGED <<file, chunks, vectors, flashcards, settings, next_uuid,
                 registry, phase, crashes, setting_writes, outside_pipeline>>

(* ---------- _run_llm_stage (ingestion.py:169-201) ---------- *)
(* outcome of one chat_json call *)
LlmOutcomes == {"ok", "error", "unavailable"}

(* extract_concepts_for_document: the chunk query; no rows -> return 0 *)
ConceptsQuery(t) ==
  /\ tasks[t].pc = "concepts_query"
  /\ LET rows == EmbeddedRows(tasks[t].doc, CONCEPT_MAX_CHUNKS)
     IN Step(t, [tasks[t] EXCEPT !.rows = rows, !.k = 1,
                    !.pc = IF rows = <<>> THEN "cards_query" ELSE "concepts_loop"])
  /\ UNCHANGED <<stores, registry, phase, crashes, setting_writes, outside_pipeline>>

(* mutant: _run_llm_stage does not catch the sub-stage's exception *)
ConceptsRaises_Propagates(t) ==
  /\ tasks[t].pc = "concepts_query"
  /\ Step(t, [tasks[t] EXCEPT !.pc = "except", !.raised = "concepts"])
  /\ UNCHANGED <<stores, registry, phase, crashes, setting_writes, outside_pipeline>>

(* the sub-stage raises; _run_llm_stage logs it and goes on *)
ConceptsRaises(t) ==
  /\ tasks[t].pc = "concepts_query"
  /\ Step(t, [tasks[t] EXCEPT !.pc = "cards_query",
                             !.soft = @ \cup {"concepts_raised"}])
  /\ UNCHANGED <<stores, registry, phase, crashes, setting_writes, outside_pipeline>>

(* mutant: LLMUnavailableError is handled like any other exception *)
ConceptChunk_NoBreak(t, outcome) ==
  /\ tasks[t].pc = "concepts_loop"
  /\ Step(t, [tasks[t] EXCEPT
        !.llm_called = TRUE,
        !.k = @ + 1,
        !.soft = IF outcome = "unavailable" THEN @ \cup {"concepts_unavailable"} ELSE @,
        !.pc = IF tasks[t].k = Len(tasks[t].rows)
               THEN "cards_query" ELSE "concepts_loop"])
  /\ UNCHANGED <<stores, registry, phase, crashes, setting_writes, outside_pipeline>>

(* one turn of the chunk loop: chat_json; LLMUnavailableError breaks,     *)
(* any other exception continues with the next chunk                      *)
ConceptChunk(t, outcome) ==
  /\ tasks[t].pc = "concepts_loop"
  /\ Step(t, [tasks[t] EXCEPT
        !.llm_called = TRUE,
        !.k = @ + 1,
        !.soft = IF outcome = "unavailable" THEN @ \cup {"concepts_unavailable"} ELSE @,
        !.pc = IF outcome = "unavailable" \/ tasks[t].k = Len(tasks[t].rows)
               THEN "cards_query" ELSE "concepts_loop"])
  /\ UNCHANGED <<stores, registry, phase, crashes, setting_writes, outside_pipeline>>

(* generate_flashcards_for_document: the chunk query; no rows -> return 0 *)
CardsQuery(t) ==
  /\ tasks[t].pc = "cards_query"
  /\ LET rows == EmbeddedRows(tasks[t].doc, FLASHCARD_MAX_CHUNKS)
     IN Step(t, [tasks[t] EXCEPT !.rows = rows, !.k = 1,
                    !.pc = IF rows = <<>> THEN "set_concepts_ready" ELSE "cards_loop"])
  /\ UNCHANGED <<stores, registry, phase, crashes, setting_writes, outside_pipeline>>

(* mutant: the exception of the flashcard sub-stage leaves _run_llm_stage *)
CardsRaises_Propagates(t) ==
  /\ tasks[t].pc = "cards_query"
  /\ Step(t, [tasks[t] EXCEPT !.pc = "except", !.raised = "cards",
                             !.soft = @ \cup {"cards_raised"}])
  /\ UNCHANGED <<stores, registry, phase, crashes, setting_writes, outside_pipeline>>

(* the sub-stage raises; _run_llm_stage logs it and goes on *)
CardsRaises(t) ==
  /\ tasks[t].pc = "cards_query"
  /\ Step(t, [tasks[t] EXCEPT !.pc = "set_concepts_ready",
                             !.soft = @ \cup {"cards_raised"}])
  /\ UNCHANGED <<stores, registry, phase, crashes, setting_writes, outside_pipeline>>

(* one turn of the chunk loop: chat_json, INSERT INTO flashcards, commit;  *)
(* an INSERT refused for its foreign key is logged and skipped            *)
CardChunk(t, outcome) ==
  /\ tasks[t].pc = "cards_loop"
  /\ flashcards' = IF outcome = "ok" /\ status[tasks[t].doc] # "deleted"
                    THEN flashcards (+) SetToBag({tasks[t].rows[tasks[t].k]})
                    ELSE flashcards
  /\ Step(t, [tasks[t] EXCEPT
        !.llm_called = TRUE,
        !.k = @ + 1,
        !.soft = IF outcome = "unavailable" THEN @ \cup {"cards_unavailable"} ELSE @,
        !.pc = IF outcome = "unavailable" \/ tasks[t].k = Len(tasks[t].rows)
               THEN "set_concepts_ready" ELSE "cards_loop"])
  /\ UNCHANGED <<status, file, chunks, vectors, settings, next_uuid,
                 registry, phase, crashes, setting_writes, outside_pipeline>>

(* await _set_status(db, doc_id, "concepts_ready") *)
SetConceptsReady(t) ==
  /\ tasks[t].pc = "set_concepts_ready"
  /\ SetStatus(tasks[t].doc, "concepts_ready")
  /\ Step(t, Return(tasks[t]))
  /\ UNCHANGED <<file, chunks, vectors, flashcards, settings, next_uuid,
                 registry, phase, crashes, setting_writes, outside_pipeline>>

(* ---------- task_registry.py ---------- *)
(* task.add_done_callback(lambda _: _running_tasks.pop(doc_id, None)) *)
DoneCallback(t) ==
  /\ Done(t)
  /\ ~tasks[t].callback_ran
  /\ registry' = [registry EXCEPT ![tasks[t].doc] = 0]
  /\ Step(t, [tasks[t] EXCEPT !.callback_ran = TRUE])
  /\ UNCHANGED <<stores, phase, crashes, setting_writes, outside_pipeline>>

(* recover_stuck_documents, up to its second await: first query and the   *)
(* start_task loop over its rows                                          *)
RecoverPipeline ==
  /\ phase = "recover_pipeline"
  /\ LET st == StartAll(find_documents_by_status(STUCK_PIPELINE), 1,
                        [tasks |-> tasks, registry |-> registry],
                        "process_document", "recover_pipeline")
     IN /\ tasks' = st.tasks
        /\ registry' = st.registry
  /\ phase' = "recover_llm"
  /\ UNCHANGED <<stores, crashes, setting_writes, outside_pipeline>>

(* second query and its start_task loop; lifespan then yields *)
RecoverLlm ==
  /\ phase = "recover_llm"
  /\ LET st == StartAll(find_documents_by_status(STUCK_LLM), 1,
                        [tasks |-> tasks, registry |-> registry],
                        RecoverLlmCoroutine, "recover_llm")
     IN /\ tasks' = st.tasks
        /\ registry' = st.registry
  /\ phase' = "serving"
  /\ UNCHANGED <<stores, crashes, setting_writes, outside_pipeline>>

(* ---------- requests ---------- *)
(* mutant: requests are served while lifespan is still in its startup *)
Upload_DuringStartup(d, fk) ==
  /\ status[d] = "absent"
  /\ status' = [status EXCEPT ![d] = "pending"]
  /\ file' = [file EXCEPT ![d] = fk]
  /\ LET st == start_task([tasks |-> tasks, registry |-> registry], d,
                          "process_document", "upload")
     IN /\ tasks' = st.tasks
        /\ registry' = st.registry
  /\ UNCHANGED <<chunks, vectors, flashcards, settings, next_uuid,
                 phase, crashes, setting_writes, outside_pipeline>>

(* upload_document: create_document (status 'pending'), then start_task;  *)
(* served once lifespan has yielded                                       *)
Upload(d, fk) ==
  /\ phase = "serving"
  /\ status[d] = "absent"
  /\ status' = [status EXCEPT ![d] = "pending"]
  /\ file' = [file EXCEPT ![d] = fk]
  /\ LET st == start_task([tasks |-> tasks, registry |-> registry], d,
                          "process_document", "upload")
     IN /\ tasks' = st.tasks
        /\ registry' = st.registry
  /\ UNCHANGED <<chunks, vectors, flashcards, settings, next_uuid,
                 phase, crashes, setting_writes, outside_pipeline>>

(* PUT /settings: set_setting(key, value) *)
UpdateSetting(key, nonempty) ==
  /\ phase = "serving"
  /\ setting_writes < MaxSettingWrites
  /\ settings[key] # nonempty
  /\ settings' = [settings EXCEPT ![key] = nonempty]
  /\ setting_writes' = setting_writes + 1
  /\ UNCHANGED <<status, file, chunks, vectors, flashcards, next_uuid,
                 tasks, registry, phase, crashes, outside_pipeline>>

(* mutant: the foreign keys do not cascade *)
delete_doc_NoCascade(d) ==
  /\ phase = "serving"
  /\ status[d] \notin {"absent", "deleted"}
  /\ status' = [status EXCEPT ![d] = "deleted"]
  /\ UNCHANGED <<file, chunks, vectors, flashcards, settings, next_uuid,
                 tasks, registry, phase, crashes, setting_writes, outside_pipeline>>

(* DELETE /documents/{doc_id}: DELETE FROM documents WHERE id = ?, which   *)
(* cascades to the chunks and flashcards of the document; the vector      *)
(* store and the running task are not touched                             *)
delete_doc(d) ==
  /\ phase = "serving"
  /\ status[d] \notin {"absent", "deleted"}
  /\ status' = [status EXCEPT ![d] = "deleted"]
  /\ chunks' = chunks \ ChunkRows(d)
  /\ flashcards' = [c \in {x \in DOMAIN flashcards : x[1] # d} |-> flashcards[c]]
  /\ UNCHANGED <<file, vectors, settings, next_uuid,
                 tasks, registry, phase, crashes, setting_writes, outside_pipeline>>

(* process_document: doc = await get_document(...); if doc is None: return *)
P_DocumentGone(t) ==
  /\ IsAt(t, "process_document", "extract")
  /\ status[tasks[t].doc] = "deleted"
  /\ Step(t, Return(tasks[t]))
  /\ UNCHANGED <<stores, registry, phase, crashes, setting_writes, outside_pipeline>>

(* run_llm_stage_for_doc: if doc is None: return *)
L_DocumentGone(t) ==
  /\ IsAt(t, "run_llm_stage_for_doc", "get_document")
  /\ status[tasks[t].doc] = "deleted"
  /\ Step(t, Return(tasks[t]))
  /\ UNCHANGED <<stores, registry, phase, crashes, setting_writes, outside_pipeline>>

(* the process dies and is started again: lifespan runs from the top *)
Crash ==
  /\ crashes < MaxCrashes
  /\ crashes' = crashes + 1
  /\ tasks' = <<>>
  /\ registry' = [d \in Docs |-> 0]
  /\ phase' = "recover_pipeline"
  /\ UNCHANGED <<stores, setting_writes, outside_pipeline>>

(* ========== services/chunker.py ========== *)
(* A text is a sequence of characters; "\n" is the only whitespace.       *)
MaxPages == 2
MaxPageChars == 4

NL == "\n"

Chars == {"a", NL}

(* target_chars / overlap_chars the call is made with (the defaults 2000  *)
(* and 200 of chunker.py:8-9, scaled to texts of a few characters)        *)
TargetChars == {2, 4}
OverlapChars == {0, 1, 2}

Texts == UNION {[1..k -> Chars] : k \in 0..MaxPageChars}

(* pages: list[PageText]; page_number is the position in the list *)
PageLists == UNION {[1..k -> Texts] : k \in 0..MaxPages}

IsBlank(text) == \A i \in 1..Len(text) : text[i] = NL

(* str.strip() *)
strip(text) ==
  IF IsBlank(text) THEN <<>>
  ELSE LET first == CHOOSE i \in 1..Len(text) :
                       text[i] # NL /\ \A j \in 1..(i - 1) : text[j] = NL
           last == CHOOSE i \in 1..Len(text) :
                       text[i] # NL /\ \A j \in (i + 1)..Len(text) : text[j] = NL
       IN SubSeq(text, first, last)

(* full_text: every page's text followed by "\n" *)
RECURSIVE FullText(_)
FullText(pages) ==
  IF pages = <<>> THEN <<>>
  ELSE FullText(SubSeq(pages, 1, Len(pages) - 1)) \o pages[Len(pages)] \o <<NL>>

(* page_offsets: (len(full_text) before the page, page_number) *)
PageOffsets(pages) ==
  [k \in 1..Len(pages) |->
     [offset |-> Len(FullText(SubSeq(pages, 1, k - 1))), page_number |-> k]]

(* _split_paragraphs: re.split(r"(\n\n+)", text), every part merged with  *)
(* the delimiter that follows it                                          *)
RECURSIVE split_paragraphs(_)
split_paragraphs(text) ==
  LET starts == {i \in 1..(Len(text) - 1) : text[i] = NL /\ text[i + 1] = NL}
  IN IF starts = {} THEN <<text>>
     ELSE LET i == CHOOSE x \in starts : \A y \in starts : x <= y
              j == CHOOSE x \in (i + 1)..Len(text) :
                     /\ \A y \in i..x : text[y] = NL
                     /\ x = Len(text) \/ text[x + 1] # NL
          IN <<SubSeq(text, 1, j)>> \o split_paragraphs(SubSeq(text, j + 1, Len(text)))

(* mutant: the comparison of _lookup_page is strict *)
lookup_page_Strict(char_offset, page_offsets) ==
  LET at == {k \in 1..Len(page_offsets) :
               \A m \in 1..k : page_offsets[m].offset < char_offset}
  IN IF at = {} THEN {}
     ELSE {page_offsets[CHOOSE k \in at : \A m \in at : m <= k].page_number}

(* _lookup_page: the last page whose offset is <= char_offset; {} is None *)
lookup_page(char_offset, page_offsets) ==
  LET at == {k \in 1..Len(page_offsets) :
               \A m \in 1..k : page_offsets[m].offset <= char_offset}
  IN IF at = {} THEN {}
     ELSE {page_offsets[CHOOSE k \in at : \A m \in at : m <= k].page_number}

(* mutant: the empty-content test of _emit_chunk is missing *)
emit_chunk_NoSkip(chunk_list, text, char_start, page_offsets) ==
  Append(chunk_list,
    [chunk_index |-> Len(chunk_list),
     content |-> strip(text),
     page_number |-> lookup_page(char_start, page_offsets),
     char_start |-> char_start,
     char_end |-> char_start + Len(text),
     token_count |-> Len(strip(text)) \div 4])

(* _emit_chunk: nothing when the text strips to nothing *)
emit_chunk(chunk_list, text, char_start, page_offsets) ==
  IF strip(text) = <<>> THEN chunk_list
  ELSE Append(chunk_list,
         [chunk_index |-> Len(chunk_list),
          content |-> strip(text),
          page_number |-> lookup_page(char_start, page_offsets),
          char_start |-> char_start,
          char_end |-> char_start + Len(text),
          token_count |-> Len(strip(text)) \div 4])

(* buf[-overlap_chars:] if len(buf) > overlap_chars else buf              *)
(* (buf[-0:] is the whole buf)                                            *)
overlap_text(buf, overlap_chars) ==
  IF Len(buf) > overlap_chars /\ overlap_chars > 0
  THEN SubSeq(buf, Len(buf) - overlap_chars + 1, Len(buf))
  ELSE buf

Paragraphs == split_paragraphs(FullText(ck.pages))

ChunkerIdle == ck = [pc |-> "idle"]

(* ========== routers/quiz.py: the SM-2 scheduler ========== *)
(* Reals are kept in thousandths: difficulty 0.3 is 300, mastery 0.05 is  *)
(* 50.  Dates are day numbers.                                            *)

(* the last day a date can hold (date.max), counted from the first day of *)
(* the model; scaled so that a few passing reviews reach it               *)
DateMaxDay == 13
MaxSm2Repetitions == 3

(* _GRADE_QUALITY = [0, 2, 4, 5], indexed by grade 0..3 *)
GRADE_QUALITY == <<0, 2, 4, 5>>

(* _MASTERY_DELTA = {0: -0.05, 1: 0.0, 2: 0.05, 3: 0.10} *)
MASTERY_DELTA == <<-50, 0, 50, 100>>

Grades == 0..3

Max(a, b) == IF a > b THEN a ELSE b

(* round(num / den) as Python rounds a float: to nearest, ties to even *)
RoundHalfEven(num, den) ==
  LET q == num \div den
      r == num % den
  IN IF 2 * r < den THEN q
     ELSE IF 2 * r > den THEN q + 1
     ELSE IF q % 2 = 0 THEN q ELSE q + 1

(* ef_delta = 0.1 - (5 - q) * (0.08 + (5 - q) * 0.02) *)
ef_delta(q) == 100 - (5 - q) * (80 + (5 - q) * 20)

(* new_difficulty = max(0.1, min(0.9, difficulty - ef_delta * 0.2)) *)
NewDifficulty(q, difficulty) ==
  Max(100, Min(900, difficulty - (ef_delta(q) * 2) \div 10))

(* mutant: a failed recall keeps the streak *)
NewRepetitions_NoReset(q, repetitions) ==
  IF q < 3 THEN repetitions ELSE repetitions + 1

(* new_reps: 0 when q < 3, else repetitions + 1 *)
NewRepetitions(q, repetitions) ==
  IF q < 3 THEN 0 ELSE repetitions + 1

(* mutant: no second tier, every repetition after the first uses the      *)
(* growth formula                                                         *)
NewInterval_NoSecondTier(q, repetitions, interval, difficulty) ==
  IF q < 3 THEN 1
  ELSE IF repetitions = 0 THEN 1
  ELSE Max(1, RoundHalfEven(interval * (25000 - 12 * difficulty), 10000))

(* mutant: a failed recall is due again the same day *)
NewInterval_ZeroOnFail(q, repetitions, interval, difficulty) ==
  IF q < 3 THEN 0
  ELSE IF repetitions = 0 THEN 1
  ELSE IF repetitions = 1 THEN 6
  ELSE Max(1, RoundHalfEven(interval * (25000 - 12 * difficulty), 10000))

(* new_interval: 1 when q < 3; else 1, 6, or                              *)
(* max(1, round(interval * (2.5 - difficulty * 1.2)))                     *)
NewInterval(q, repetitions, interval, difficulty) ==
  IF q < 3 THEN 1
  ELSE IF repetitions = 0 THEN 1
  ELSE IF repetitions = 1 THEN 6
  ELSE Max(1, RoundHalfEven(interval * (25000 - 12 * difficulty), 10000))

(* _compute_sm2.  date.today() + timedelta(days=new_interval) raises      *)
(* OverflowError when the day lies after date.max: nothing is returned.   *)
compute_sm2(grade, repetitions, interval, difficulty, day) ==
  LET q == GRADE_QUALITY[grade + 1]
      new_interval == NewInterval(q, repetitions, interval, difficulty)
      raised == day + new_interval > DateMaxDay
  IN [raised |-> raised,
      repetitions |-> NewRepetitions(q, repetitions),
      interval |-> new_interval,
      difficulty |-> NewDifficulty(q, difficulty),
      next_review |-> IF raised THEN {} ELSE {day + new_interval}]

(* ---------- one call of _compute_sm2 on arbitrary arguments ---------- *)
Sm2Intervals == {1, 2, 6, 9}
Sm2Difficulties == {100, 300, 625, 900}

Sm2Inputs ==
  [grade : Grades, repetitions : 0..MaxSm2Repetitions, interval : Sm2Intervals,
   difficulty : Sm2Difficulties, day : {0, 1}]

Sm2Idle ==
  sm2 = [args |-> [grade |-> 0, repetitions |-> 0, interval |-> 1,
                   difficulty |-> 300, day |-> 0],
         out |-> <<>>]

Sm2Apply ==
  /\ sm2.out = <<>>
  /\ sm2' = [sm2 EXCEPT !.out = <<compute_sm2(sm2.args.grade, sm2.args.repetitions,
                                               sm2.args.interval, sm2.args.difficulty,
                                               sm2.args.day)>>]
  /\ UNCHANGED <<pipeline_vars, quiz_vars, ck, ex>>

(* ========== flashcards, reviews, concept mastery ========== *)
CardIds == {"f1"}
ConceptIds == {"n1", "n2", "n3"}
MaxInFlight == 2
MaxReviews == 2

(* source chunk of the cards the generator makes *)
CardChunk_id == "k1"

(* a chunk no card comes from *)
OtherChunk_id == "k2"

ReqIds == 1..MaxInFlight

(* what the LLM puts in card["difficulty"]: nothing, a number (in         *)
(* thousandths), NaN, or text that float() rejects                        *)
LlmDifficulties ==
  {[kind |-> "missing", v |-> 0], [kind |-> "nan", v |-> 0], [kind |-> "text", v |-> 0]}
  \cup {[kind |-> "number", v |-> x] : x \in {-1000, 0, 5000}}

(* mutant: the generator stores the LLM's number as it is *)
ClampDifficulty_None(raw) ==
  IF raw.kind = "missing" \/ raw.v = 0 THEN 300 ELSE raw.v

(* difficulty = float(card.get("difficulty") or 0.3)                      *)
(* difficulty = max(0.1, min(0.9, difficulty))      (min(0.9, nan) = 0.9) *)
ClampDifficulty(raw) ==
  IF raw.kind = "nan" THEN 900
  ELSE IF raw.kind = "missing" \/ raw.v = 0 THEN 300
  ELSE Max(100, Min(900, raw.v))

(* a row of table flashcards; state "proposed": the LLM answered the card *)
(* and the generator has not reached it, "dropped": the generator left    *)
(* its loop before the INSERT                                             *)
ProposedCard(raw) ==
  [state |-> "proposed", raw |-> raw, chunk_id |-> "", difficulty |-> 0,
   interval |-> 0, repetitions |-> 0, next_review |-> {}]

Live(c) == cards[c].state = "live"

NoResponse == [code |-> 0, body |-> <<>>]

Response(code, body) == [code |-> code, body |-> body]

NoRequest ==
  [pc |-> "idle", card_id |-> "", grade |-> 0, card |-> <<>>, new |-> <<>>,
   updates |-> <<>>, mastery_failed |-> FALSE, resp |-> NoResponse]

(* a request slot with no request in it; resp is the response last sent *)
Idle(resp) == [NoRequest EXCEPT !.resp = resp]

QuizIdle ==
  /\ cards = [c \in CardIds |-> ProposedCard([kind |-> "missing", v |-> 0])]
  /\ concepts = [n \in ConceptIds |-> [mastery |-> 0, review_count |-> 0, chunk_ids |-> {}]]
  /\ requests = [r \in ReqIds |-> NoRequest]
  /\ today = 0
  /\ submitted = 0

(* flashcard_generator.py: one card of the LLM's answer is inserted;      *)
(* interval, repetitions and next_review take the column defaults         *)
InsertFlashcard(c) ==
  /\ cards[c].state = "proposed"
  /\ cards[c].raw.kind # "text"
  /\ cards' = [cards EXCEPT ![c] =
        [@ EXCEPT !.state = "live", !.raw = [kind |-> "missing", v |-> 0],
                  !.chunk_id = CardChunk_id,
                  !.difficulty = ClampDifficulty(cards[c].raw),
                  !.interval = 1, !.repetitions = 0, !.next_review = {}]]
  /\ UNCHANGED <<pipeline_vars, concepts, requests, today, submitted, sm2, ck, ex>>

(* float("...") raises ValueError outside the try around the INSERT: the  *)
(* generator ends without this card                                       *)
InsertFlashcardRaises(c) ==
  /\ cards[c].state = "proposed"
  /\ cards[c].raw.kind = "text"
  /\ cards' = [cards EXCEPT ![c] =
        [@ EXCEPT !.state = "dropped", !.raw = [kind |-> "missing", v |-> 0]]]
  /\ UNCHANGED <<pipeline_vars, concepts, requests, today, submitted, sm2, ck, ex>>

(* DELETE /quiz/{card_id} *)
remove_card(c) ==
  /\ Live(c)
  /\ cards' = [cards EXCEPT ![c] = [@ EXCEPT !.state = "deleted"]]
  /\ UNCHANGED <<pipeline_vars, concepts, requests, today, submitted, sm2, ck, ex>>

(* ---------- review_card (quiz.py:97-137) ---------- *)
Req(r, rec) == requests' = [requests EXCEPT ![r] = rec]

(* if body.grade not in (0, 1, 2, 3): 422 *)
ReviewBadGrade(r, c, g) ==
  /\ requests[r].pc = "idle"
  /\ \A q \in ReqIds : q < r => requests[q].pc # "idle"
  /\ submitted < MaxReviews
  /\ g \notin Grades
  /\ Req(r, Idle(Response(422, <<>>)))
  /\ submitted' = submitted + 1
  /\ UNCHANGED <<pipeline_vars, cards, concepts, today, sm2, ck, ex>>

(* the request arrives (it takes the first free slot); first await is    *)
(* get_flashcard                                                          *)
ReviewSubmit(r, c, g) ==
  /\ requests[r].pc = "idle"
  /\ \A q \in ReqIds : q < r => requests[q].pc # "idle"
  /\ submitted < MaxReviews
  /\ g \in Grades
  /\ Req(r, [NoRequest EXCEPT !.pc = "get_flashcard", !.card_id = c, !.grade = g])
  /\ submitted' = submitted + 1
  /\ UNCHANGED <<pipeline_vars, cards, concepts, today, sm2, ck, ex>>

(* card = await get_flashcard(db, card_id) *)
ReviewGetFlashcard(r) ==
  /\ requests[r].pc = "get_flashcard"
  /\ Live(requests[r].card_id)
  /\ Req(r, [requests[r] EXCEPT !.pc = "compute", !.card = <<cards[requests[r].card_id]>>])
  /\ UNCHANGED <<pipeline_vars, cards, concepts, today, submitted, sm2, ck, ex>>

(* if not card: 404 *)
ReviewNotFound(r) ==
  /\ requests[r].pc = "get_flashcard"
  /\ ~Live(requests[r].card_id)
  /\ Req(r, Idle(Response(404, <<>>)))
  /\ UNCHANGED <<pipeline_vars, cards, concepts, today, submitted, sm2, ck, ex>>

Sm2Of(r) ==
  compute_sm2(requests[r].grade, requests[r].card[1].repetitions,
              requests[r].card[1].interval, requests[r].card[1].difficulty, today)

(* UPDATE flashcards SET repetitions, interval, difficulty, next_review   *)
(* WHERE id = ?                                                           *)
update_flashcard_sm2(c, new) ==
  [cards EXCEPT ![c] =
     IF @.state = "live"
     THEN [@ EXCEPT !.repetitions = new.repetitions, !.interval = new.interval,
                    !.difficulty = new.difficulty, !.next_review = new.next_review]
     ELSE @]

(* _compute_sm2(...); update_flashcard_sm2: UPDATE, commit, and the       *)
(* get_flashcard that yields `updated`                                    *)
ReviewUpdate(r) ==
  /\ requests[r].pc = "compute"
  /\ ~Sm2Of(r).raised
  /\ Live(requests[r].card_id)
  /\ cards' = update_flashcard_sm2(requests[r].card_id, Sm2Of(r))
  /\ Req(r, [requests[r] EXCEPT
        !.new = <<Sm2Of(r)>>,
        !.pc = IF requests[r].card[1].chunk_id # "" THEN "mastery_read" ELSE "return"])
  /\ UNCHANGED <<pipeline_vars, concepts, today, submitted, sm2, ck, ex>>

(* _compute_sm2 raises OverflowError: the request ends with a 500 *)
ReviewComputeRaises(r) ==
  /\ requests[r].pc = "compute"
  /\ Sm2Of(r).raised
  /\ Req(r, Idle(Response(500, <<>>)))
  /\ UNCHANGED <<pipeline_vars, cards, concepts, today, submitted, sm2, ck, ex>>

(* the row is gone: the UPDATE matches nothing, get_flashcard yields None *)
(* if not updated: 500 "Failed to update flashcard"                       *)
ReviewUpdateFailed(r) ==
  /\ requests[r].pc = "compute"
  /\ ~Sm2Of(r).raised
  /\ ~Live(requests[r].card_id)
  /\ Req(r, Idle(Response(500, <<>>)))
  /\ UNCHANGED <<pipeline_vars, cards, concepts, today, submitted, sm2, ck, ex>>

(* ---------- update_concept_mastery_from_chunk (kuzu_.py:188-215) ---------- *)
ConceptOrder == <<"n1", "n2", "n3">>

(* mutant: the new mastery is not clamped *)
NewMastery_NoClamp(mastery, delta) == mastery + delta

(* new_mastery = max(0.0, min(1.0, mastery + delta)) *)
NewMastery(mastery, delta) == Max(0, Min(1000, mastery + delta))

(* MATCH (c:Concept)-[r:EXTRACTED_FROM]->() WHERE r.chunk_id = ...  and   *)
(* the list of updates made of its rows                                   *)
MasteryUpdates(chunk_id, delta) ==
  LET linked == SelectSeq(ConceptOrder, LAMBDA n : chunk_id \in concepts[n].chunk_ids)
  IN [j \in 1..Len(linked) |->
        [cid |-> linked[j],
         mastery |-> NewMastery(concepts[linked[j]].mastery, delta),
         review_count |-> concepts[linked[j]].review_count + 1]]

(* delta = _MASTERY_DELTA[body.grade]; the MATCH query and the while loop *)
MasteryRead(r) ==
  /\ requests[r].pc = "mastery_read"
  /\ LET ups == MasteryUpdates(requests[r].card[1].chunk_id,
                               MASTERY_DELTA[requests[r].grade + 1])
     IN Req(r, [requests[r] EXCEPT !.updates = ups,
                   !.pc = IF ups = <<>> THEN "return" ELSE "mastery_write"])
  /\ UNCHANGED <<pipeline_vars, cards, concepts, today, submitted, sm2, ck, ex>>

(* the graph query raises; except Exception: logger.warning(...) *)
MasteryReadRaises(r) ==
  /\ requests[r].pc = "mastery_read"
  /\ Req(r, [requests[r] EXCEPT !.pc = "return", !.mastery_failed = TRUE])
  /\ UNCHANGED <<pipeline_vars, cards, concepts, today, submitted, sm2, ck, ex>>

(* SET c.mastery, c.review_count for the first j updates of the list *)
RECURSIVE ApplyUpdates(_, _, _)
ApplyUpdates(cs, ups, j) ==
  IF j = 0 THEN cs
  ELSE LET prev == ApplyUpdates(cs, ups, j - 1)
       IN [prev EXCEPT ![ups[j].cid] =
             [@ EXCEPT !.mastery = ups[j].mastery, !.review_count = ups[j].review_count]]

(* for cid, new_mastery, new_rc in updates: SET ... *)
MasteryWrite(r) ==
  /\ requests[r].pc = "mastery_write"
  /\ concepts' = ApplyUpdates(concepts, requests[r].updates, Len(requests[r].updates))
  /\ Req(r, [requests[r] EXCEPT !.pc = "return", !.updates = <<>>])
  /\ UNCHANGED <<pipeline_vars, cards, today, submitted, sm2, ck, ex>>

(* the SET after the first j raises: the later updates are lost, the      *)
(* request goes on                                                        *)
MasteryWriteRaises(r, j) ==
  /\ requests[r].pc = "mastery_write"
  /\ j < Len(requests[r].updates)
  /\ concepts' = ApplyUpdates(concepts, requests[r].updates, j)
  /\ Req(r, [requests[r] EXCEPT !.pc = "return", !.mastery_failed = TRUE,
                                !.updates = <<>>])
  /\ UNCHANGED <<pipeline_vars, cards, today, submitted, sm2, ck, ex>>

(* mutant: a failed mastery update fails the request *)
ReviewReturn_FailsOnMastery(r) ==
  /\ requests[r].pc = "return"
  /\ Req(r, Idle(IF requests[r].mastery_failed
                 THEN Response(500, <<>>)
                 ELSE Response(200, requests[r].new)))
  /\ UNCHANGED <<pipeline_vars, cards, concepts, today, submitted, sm2, ck, ex>>

(* return ReviewResult(id, interval, next_review, repetitions, difficulty) *)
ReviewReturn(r) ==
  /\ requests[r].pc = "return"
  /\ Req(r, Idle(Response(200, requests[r].new)))
  /\ UNCHANGED <<pipeline_vars, cards, concepts, today, submitted, sm2, ck, ex>>

(* no extract_concepts_for_document is running *)
ExtractIdle == ex = [pc |-> "idle"]

Init ==
  /\ PipelineInit
  /\ QuizIdle
  /\ Sm2Idle
  /\ ChunkerIdle
  /\ ExtractIdle

(* ---------- the quiz endpoints on a store with one generated card ---------- *)
(* a new concept has mastery 0.0; nineteen good reviews later it has 0.95 *)
InitialMasteries == {0, 950}

(* the card when the first request arrives: still in the LLM's answer, or *)
(* stored and already reviewed "good" twice on this day (repetitions 2,   *)
(* interval 6, difficulty as generated)                                   *)
InitialCards ==
  {ProposedCard(raw) : raw \in LlmDifficulties}
  \cup {[state |-> "live", raw |-> [kind |-> "missing", v |-> 0],
         chunk_id |-> CardChunk_id, difficulty |-> d, interval |-> 6,
         repetitions |-> 2, next_review |-> {6}] : d \in {100, 300, 900}}

QuizInit ==
  /\ PipelineInit
  /\ Sm2Idle
  /\ ChunkerIdle
  /\ ExtractIdle
  /\ cards \in [CardIds -> InitialCards]
  /\ \E m \in InitialMasteries :
        concepts = [n \in ConceptIds |->
           [mastery |-> m, review_count |-> 0,
            chunk_ids |-> IF n = "n3" THEN {OtherChunk_id} ELSE {CardChunk_id}]]
  /\ requests = [r \in ReqIds |-> NoRequest]
  /\ today = 0
  /\ submitted = 0

QuizNext ==
  \/ \E c \in CardIds : InsertFlashcard(c)
  \/ \E c \in CardIds : InsertFlashcardRaises(c)
  \/ \E c \in CardIds : remove_card(c)
  \/ \E r \in ReqIds, c \in CardIds, g \in {-1, 4} : ReviewBadGrade(r, c, g)
  \/ \E r \in ReqIds, c \in CardIds, g \in Grades : ReviewSubmit(r, c, g)
  \/ \E r \in ReqIds : ReviewGetFlashcard(r)
  \/ \E r \in ReqIds : ReviewNotFound(r)
  \/ \E r \in ReqIds : ReviewUpdate(r)
  \/ \E r \in ReqIds : ReviewComputeRaises(r)
  \/ \E r \in ReqIds : ReviewUpdateFailed(r)
  \/ \E r \in ReqIds : MasteryRead(r)
  \/ \E r \in ReqIds : MasteryReadRaises(r)
  \/ \E r \in ReqIds : MasteryWrite(r)
  \/ \E r \in ReqIds, j \in 0..Cardinality(ConceptIds) : MasteryWriteRaises(r, j)
  \/ \E r \in ReqIds : ReviewReturn(r)

QuizSpec == QuizInit /\ [][QuizNext]_vars

Sm2Init ==
  /\ PipelineInit
  /\ QuizIdle
  /\ ChunkerIdle
  /\ ExtractIdle
  /\ \E a \in Sm2Inputs : sm2 = [args |-> a, out |-> <<>>]

Sm2Next == Sm2Apply

Sm2Spec == Sm2Init /\ [][Sm2Next]_vars

(* ---------- one call of chunk_pages on arbitrary pages ---------- *)
ChunkerInit ==
  /\ PipelineInit
  /\ QuizIdle
  /\ Sm2Idle
  /\ ExtractIdle
  /\ \E pages \in PageLists, target \in TargetChars, overlap \in OverlapChars :
        ck = [pc |-> "start", pages |-> pages, target_chars |-> target,
              overlap_chars |-> overlap, p |-> 0, buf |-> <<>>, buf_start |-> 0,
              text_cursor |-> 0, chunks |-> <<>>]

(* if not pages: return [] ... if not full_text.strip(): return [] *)
ChunkReturnEmpty ==
  /\ ck.pc = "start"
  /\ ck.pages = <<>> \/ strip(FullText(ck.pages)) = <<>>
  /\ ck' = [ck EXCEPT !.pc = "done"]
  /\ UNCHANGED <<pipeline_vars, quiz_vars, sm2, ex>>

(* paragraphs = _split_paragraphs(full_text); buf = ""; ... *)
ChunkSplit ==
  /\ ck.pc = "start"
  /\ ck.pages # <<>>
  /\ strip(FullText(ck.pages)) # <<>>
  /\ ck' = [ck EXCEPT !.pc = "loop", !.p = 1]
  /\ UNCHANGED <<pipeline_vars, quiz_vars, sm2, ex>>

(* if not para.strip(): buf += para; continue *)
ChunkBlankParagraph ==
  /\ ck.pc = "loop"
  /\ ck.p <= Len(Paragraphs)
  /\ strip(Paragraphs[ck.p]) = <<>>
  /\ ck' = [ck EXCEPT !.p = @ + 1,
                      !.text_cursor = @ + Len(Paragraphs[ck.p]),
                      !.buf = @ \o Paragraphs[ck.p]]
  /\ UNCHANGED <<pipeline_vars, quiz_vars, sm2, ex>>

(* the paragraph fits (or buf is empty): buf += para *)
ChunkAppend ==
  /\ ck.pc = "loop"
  /\ ck.p <= Len(Paragraphs)
  /\ strip(Paragraphs[ck.p]) # <<>>
  /\ ~(ck.buf # <<>> /\ Len(ck.buf) + Len(Paragraphs[ck.p]) > ck.target_chars)
  /\ ck' = [ck EXCEPT !.p = @ + 1,
                      !.text_cursor = @ + Len(Paragraphs[ck.p]),
                      !.buf = @ \o Paragraphs[ck.p]]
  /\ UNCHANGED <<pipeline_vars, quiz_vars, sm2, ex>>

(* if buf and len(buf) + len(para) > target_chars: emit buf, start the    *)
(* new buffer with the overlap; then buf += para                          *)
ChunkCloseBuffer ==
  /\ ck.pc = "loop"
  /\ ck.p <= Len(Paragraphs)
  /\ strip(Paragraphs[ck.p]) # <<>>
  /\ ck.buf # <<>>
  /\ Len(ck.buf) + Len(Paragraphs[ck.p]) > ck.target_chars
  /\ LET ov == overlap_text(ck.buf, ck.overlap_chars)
     IN ck' = [ck EXCEPT
          !.p = @ + 1,
          !.text_cursor = @ + Len(Paragraphs[ck.p]),
          !.chunks = emit_chunk(@, ck.buf, ck.buf_start, PageOffsets(ck.pages)),
          !.buf_start = @ + Len(ck.buf) - Len(ov),
          !.buf = ov \o Paragraphs[ck.p]]
  /\ UNCHANGED <<pipeline_vars, quiz_vars, sm2, ex>>

(* if buf.strip(): _emit_chunk(...); return chunks *)
ChunkEmitRemaining ==
  /\ ck.pc = "loop"
  /\ ck.p > Len(Paragraphs)
  /\ ck' = [ck EXCEPT
        !.pc = "done",
        !.chunks = emit_chunk(@, ck.buf, ck.buf_start, PageOffsets(ck.pages))]
  /\ UNCHANGED <<pipeline_vars, quiz_vars, sm2, ex>>

ChunkerNext ==
  \/ ChunkReturnEmpty
  \/ ChunkSplit
  \/ ChunkBlankParagraph
  \/ ChunkAppend
  \/ ChunkCloseBuffer
  \/ ChunkEmitRemaining

ChunkerSpec == ChunkerInit /\ [][ChunkerNext]_vars

(* ========== services/concept_extractor.py, db/kuzu_.py ========== *)
(* The concept graph and the executions of extract_concepts_for_document, *)
(* one per document, running as tasks of one event loop; every Kuzu       *)
(* helper runs its queries in a worker thread (asyncio.to_thread).        *)
ExDocs == {"d1", "d2"}

Names == {"A", "B"}

(* a list element that is not a JSON object *)
BadItem == "not_an_object"

(* rows of the chunk query: has_embedding = 1, ordered by chunk_index;    *)
(* eligible: len(content) >= MIN_CHUNK_CHARS                              *)
ExRows(d) ==
  IF d = "d1"
  THEN <<[id |-> "d1k1", eligible |-> TRUE],
         [id |-> "d1k2", eligible |-> FALSE],
         [id |-> "d1k3", eligible |-> TRUE]>>
  ELSE <<[id |-> "d2k1", eligible |-> TRUE]>>

(* what one chat_json call yields: LLMUnavailableError, another           *)
(* exception, a JSON value that is not an object, or an object            *)
ConceptLists == {<<>>, <<"A">>, <<"A", "B">>, <<"", "B">>, <<"A", BadItem>>}

RelationshipLists == {<<>>, <<<<"A", "B">>>>}

LlmResults ==
  {[kind |-> k, concepts |-> <<>>, relationships |-> <<>>]
     : k \in {"unavailable", "error", "not_object"}}
  \cup
  {[kind |-> "object", concepts |-> cs, relationships |-> rs]
     : cs \in ConceptLists, rs \in RelationshipLists}

NoResult == [kind |-> "none", concepts |-> <<>>, relationships |-> <<>>]

(* name_to_id: 0 stands for a name that is not a key *)
NoNames == [n \in Names |-> 0]

NewRun ==
  [pc |-> "query", rows |-> <<>>, k |-> 0, result |-> NoResult, ci |-> 0, ri |-> 0,
   name_to_id |-> NoNames, total_concepts |-> 0, concept_id |-> 0,
   called |-> {}, failed |-> {}, unavailable_at |-> 0]

Run(d) == ex.runs[d]

SetRun(d, r) == [ex EXCEPT !.runs[d] = r]

(* for row in rows: if len(content) < MIN_CHUNK_CHARS: continue *)
NextChunk(rows, k) ==
  IF \E j \in (k + 1)..Len(rows) : rows[j].eligible
  THEN CHOOSE j \in (k + 1)..Len(rows) :
         rows[j].eligible /\ \A i \in (k + 1)..(j - 1) : ~rows[i].eligible
  ELSE Len(rows) + 1

(* the exception leaves extract_concepts_for_document *)
Raise(r) == [r EXCEPT !.pc = "raised"]

(* mutant: name_to_id is created once, before the chunk loop *)
ToNextChunk_KeepNames(r) ==
  LET j == NextChunk(r.rows, r.k)
  IN IF j > Len(r.rows)
     THEN [r EXCEPT !.k = Len(r.rows), !.pc = "count"]
     ELSE [r EXCEPT !.k = j, !.result = NoResult, !.ci = 0, !.ri = 0,
                    !.concept_id = 0, !.pc = "chat"]

(* on to the next eligible row (result and name_to_id are bound anew for  *)
(* it), or out of the loop to the concept_count update                    *)
ToNextChunk(r) ==
  LET j == NextChunk(r.rows, r.k)
  IN IF j > Len(r.rows)
     THEN [r EXCEPT !.k = Len(r.rows), !.pc = "count"]
     ELSE [r EXCEPT !.k = j, !.result = NoResult, !.ci = 0, !.ri = 0,
                    !.name_to_id = NoNames, !.concept_id = 0, !.pc = "chat"]

(* for rel in relationships_data: up to the next add_concept_edge *)
RECURSIVE ToNextRelationship(_)
ToNextRelationship(r) ==
  IF r.ri > Len(r.result.relationships) THEN ToNextChunk(r)
  ELSE LET rel == r.result.relationships[r.ri]
       IN IF r.name_to_id[rel[1]] = 0 \/ r.name_to_id[rel[2]] = 0
          THEN ToNextRelationship([r EXCEPT !.ri = @ + 1])
          ELSE [r EXCEPT !.pc = "add_concept_edge"]

(* for cdata in concepts_data: up to the next upsert_concept; cdata.get   *)
(* on an element that is no object raises AttributeError outside any try  *)
RECURSIVE ToNextConcept(_)
ToNextConcept(r) ==
  IF r.ci > Len(r.result.concepts)
  THEN ToNextRelationship([r EXCEPT !.ri = 1])
  ELSE LET cdata == r.result.concepts[r.ci]
       IN IF cdata = BadItem THEN Raise([r EXCEPT !.failed = @ \cup {r.k}])
          ELSE IF cdata = "" THEN ToNextConcept([r EXCEPT !.ci = @ + 1])
          ELSE [r EXCEPT !.pc = "upsert_match"]

Name(r) == r.result.concepts[r.ci]

ExtractInit ==
  /\ PipelineInit
  /\ QuizIdle
  /\ Sm2Idle
  /\ ChunkerIdle
  /\ ex = [pc |-> "running",
           nodes |-> {}, next_id |-> 1, doc_nodes |-> {},
           extracted_from |-> {}, edges |-> {},
           concept_count |-> [d \in ExDocs |-> 0],
           upserts |-> {}, edge_log |-> {},
           runs |-> [d \in ExDocs |-> NewRun]]

(* SELECT id, content FROM chunks ...; if not rows: return 0 *)
E_Query(d) ==
  /\ Run(d).pc = "query"
  /\ ex' = SetRun(d, [Run(d) EXCEPT
              !.rows = ExRows(d),
              !.pc = IF ExRows(d) = <<>> THEN "returned" ELSE "ensure_doc_node"])
  /\ UNCHANGED outside_extract

(* await ensure_doc_node(doc_id, doc_title, doc_author) *)
ensure_doc_node(d) ==
  /\ Run(d).pc = "ensure_doc_node"
  /\ ex' = [SetRun(d, ToNextChunk(Run(d))) EXCEPT !.doc_nodes = @ \cup {d}]
  /\ UNCHANGED outside_extract

(* result = await chat_json(...) with its two except clauses, then        *)
(* result.get("concepts") / result.get("relationships")                   *)
E_Chat(d, res) ==
  /\ Run(d).pc = "chat"
  /\ LET r == [Run(d) EXCEPT !.called = @ \cup {Run(d).k}]
     IN ex' = SetRun(d,
          CASE res.kind = "unavailable" ->
                 [r EXCEPT !.pc = "count", !.unavailable_at = r.k]
            [] res.kind = "error" ->
                 ToNextChunk([r EXCEPT !.failed = @ \cup {r.k}])
            [] res.kind = "not_object" ->
                 Raise([r EXCEPT !.failed = @ \cup {r.k}])
            [] OTHER ->
                 ToNextConcept([r EXCEPT !.result = res, !.ci = 1]))
  /\ UNCHANGED outside_extract

(* upsert_concept._sync, first query: MATCH (c:Concept) WHERE c.name = ..  *)
(* found: the id is returned and stored in name_to_id                     *)
upsert_concept_match(d) ==
  /\ Run(d).pc = "upsert_match"
  /\ LET found == {n \in ex.nodes : n.name = Name(Run(d))}
     IN IF found = {}
        THEN ex' = SetRun(d, [Run(d) EXCEPT !.pc = "upsert_create"])
        ELSE \E n \in found :
               ex' = [SetRun(d, [Run(d) EXCEPT
                         !.pc = "add_extracted_from",
                         !.concept_id = n.id,
                         !.name_to_id[Name(Run(d))] = n.id])
                      EXCEPT !.upserts = @ \cup {<<d, Run(d).k, Name(Run(d)), n.id>>}]
  /\ UNCHANGED outside_extract

(* upsert_concept._sync, second query: CREATE (c:Concept {id: uuid4, ..}) *)
upsert_concept_create(d) ==
  /\ Run(d).pc = "upsert_create"
  /\ ex' = [SetRun(d, [Run(d) EXCEPT
               !.pc = "add_extracted_from",
               !.concept_id = ex.next_id,
               !.name_to_id[Name(Run(d))] = ex.next_id])
            EXCEPT !.nodes = @ \cup {[id |-> ex.next_id, name |-> Name(Run(d))]},
                   !.next_id = @ + 1,
                   !.upserts = @ \cup {<<d, Run(d).k, Name(Run(d)), ex.next_id>>}]
  /\ UNCHANGED outside_extract

(* upsert_concept raises: except Exception: logger.warning(...) *)
upsert_concept_raises(d) ==
  /\ Run(d).pc = "upsert_match"
  /\ ex' = SetRun(d, ToNextConcept([Run(d) EXCEPT !.ci = @ + 1,
                                                   !.failed = @ \cup {Run(d).k}]))
  /\ UNCHANGED outside_extract

(* await add_extracted_from(concept_id, doc_id, chunk_id, 0.8);           *)
(* total_concepts += 1                                                    *)
add_extracted_from(d) ==
  /\ Run(d).pc = "add_extracted_from"
  /\ ex' = [SetRun(d, ToNextConcept([Run(d) EXCEPT
               !.ci = @ + 1, !.total_concepts = @ + 1]))
            EXCEPT !.extracted_from =
               IF d \in ex.doc_nodes /\ \E n \in ex.nodes : n.id = Run(d).concept_id
               THEN @ \cup {<<Run(d).concept_id, d, Run(d).rows[Run(d).k].id>>}
               ELSE @]
  /\ UNCHANGED outside_extract

add_extracted_from_raises(d) ==
  /\ Run(d).pc = "add_extracted_from"
  /\ ex' = SetRun(d, ToNextConcept([Run(d) EXCEPT !.ci = @ + 1,
                                                   !.failed = @ \cup {Run(d).k}]))
  /\ UNCHANGED outside_extract

(* await add_concept_edge(name_to_id[from_name], name_to_id[to_name], ..) *)
add_concept_edge(d) ==
  /\ Run(d).pc = "add_concept_edge"
  /\ LET rel == Run(d).result.relationships[Run(d).ri]
         from_id == Run(d).name_to_id[rel[1]]
         to_id == Run(d).name_to_id[rel[2]]
     IN ex' = [SetRun(d, ToNextRelationship([Run(d) EXCEPT !.ri = @ + 1]))
               EXCEPT !.edges = @ \cup {<<from_id, to_id>>},
                      !.edge_log = @ \cup {[doc |-> d, k |-> Run(d).k,
                                            from_name |-> rel[1], to_name |-> rel[2],
                                            from_id |-> from_id, to_id |-> to_id]}]
  /\ UNCHANGED outside_extract

add_concept_edge_raises(d) ==
  /\ Run(d).pc = "add_concept_edge"
  /\ ex' = SetRun(d, ToNextRelationship([Run(d) EXCEPT !.ri = @ + 1,
                                                        !.failed = @ \cup {Run(d).k}]))
  /\ UNCHANGED outside_extract

(* if total_concepts > 0: UPDATE documents SET concept_count = ?; return *)
E_Count(d) ==
  /\ Run(d).pc = "count"
  /\ ex' = [SetRun(d, [Run(d) EXCEPT !.pc = "returned", !.result = NoResult,
                                     !.ci = 0, !.ri = 0, !.name_to_id = NoNames,
                                     !.concept_id = 0])
            EXCEPT !.concept_count[d] =
               IF Run(d).total_concepts > 0 THEN Run(d).total_concepts ELSE @]
  /\ UNCHANGED outside_extract

ExtractNext ==
  \E d \in ExDocs :
     \/ E_Query(d)
     \/ ensure_doc_node(d)
     \/ \E res \in LlmResults : E_Chat(d, res)
     \/ upsert_concept_match(d)
     \/ upsert_concept_create(d)
     \/ upsert_concept_raises(d)
     \/ add_extracted_from(d)
     \/ add_extracted_from_raises(d)
     \/ add_concept_edge(d)
     \/ add_concept_edge_raises(d)
     \/ E_Count(d)

ExtractSpec == ExtractInit /\ [][ExtractNext]_vars

(* ========== the ingestion pipeline as a whole ========== *)
Next ==
  \/ \E t \in TaskIds : P_SetExtracting(t)
  \/ \E t \in TaskIds : P_Extract(t)
  \/ \E t \in TaskIds : P_ExtractRaises(t)
  \/ \E t \in TaskIds : P_NeedsOcr(t)
  \/ \E t \in TaskIds : P_SetChunking(t)
  \/ \E t \in TaskIds : P_NoChunks(t)
  \/ \E t \in TaskIds : P_InsertChunks(t)
  \/ \E t \in TaskIds : P_InsertChunksRaises(t)
  \/ \E t \in TaskIds : P_SetEmbedding(t)
  \/ \E t \in TaskIds : P_Purge(t)
  \/ \E t \in TaskIds : P_PurgeRaises(t)
  \/ \E t \in TaskIds : P_AddBatch(t)
  \/ \E t \in TaskIds : P_AddBatchRaises(t)
  \/ \E t \in TaskIds : P_FlagEmbedded(t)
  \/ \E t \in TaskIds : P_ReadModelId(t)
  \/ \E t \in TaskIds : P_ReadModelPath(t)
  \/ \E t \in TaskIds : P_RunLlmStage(t)
  \/ \E t \in TaskIds : P_NoLlm(t)
  \/ \E t \in TaskIds : P_SetError(t)
  \/ \E t \in TaskIds : L_GetDocument(t)
  \/ \E t \in TaskIds : L_GetDocumentRaises(t)
  \/ \E t \in TaskIds : L_RunLlmStage(t)
  \/ \E t \in TaskIds : L_Fallback(t)
  \/ \E t \in TaskIds : ConceptsQuery(t)
  \/ \E t \in TaskIds : ConceptsRaises(t)
  \/ \E t \in TaskIds, o \in LlmOutcomes : ConceptChunk(t, o)
  \/ \E t \in TaskIds : CardsQuery(t)
  \/ \E t \in TaskIds : CardsRaises(t)
  \/ \E t \in TaskIds, o \in LlmOutcomes : CardChunk(t, o)
  \/ \E t \in TaskIds : SetConceptsReady(t)
  \/ \E t \in TaskIds : DoneCallback(t)
  \/ RecoverPipeline
  \/ RecoverLlm
  \/ \E d \in Docs, fk \in FileKinds : Upload(d, fk)
  \/ \E key \in {"llm_model_id", "llm_model_path"}, v \in BOOLEAN : UpdateSetting(key, v)
  \/ Crash

Spec == Init /\ [][Next]_vars

(* ---------- the pipeline under a fair scheduler ---------- *)
(* the event loop runs every task that is ready: one step of execution t, *)
(* its done callback included                                             *)
TaskStep(t) ==
  /\ t \in TaskIds
  /\ (
        \/ P_SetExtracting(t)
        \/ P_Extract(t)
        \/ P_ExtractRaises(t)
        \/ P_NeedsOcr(t)
        \/ P_SetChunking(t)
        \/ P_NoChunks(t)
        \/ P_InsertChunks(t)
        \/ P_InsertChunksRaises(t)
        \/ P_SetEmbedding(t)
        \/ P_Purge(t)
        \/ P_PurgeRaises(t)
        \/ P_AddBatch(t)
        \/ P_AddBatchRaises(t)
        \/ P_FlagEmbedded(t)
        \/ P_ReadModelId(t)
        \/ P_ReadModelPath(t)
        \/ P_RunLlmStage(t)
        \/ P_NoLlm(t)
        \/ P_SetError(t)
        \/ L_GetDocument(t)
        \/ L_GetDocumentRaises(t)
        \/ L_RunLlmStage(t)
        \/ L_Fallback(t)
        \/ ConceptsQuery(t)
        \/ ConceptsRaises(t)
        \/ \E o \in LlmOutcomes : ConceptChunk(t, o)
        \/ CardsQuery(t)
        \/ CardsRaises(t)
        \/ \E o \in LlmOutcomes : CardChunk(t, o)
        \/ SetConceptsReady(t)
        \/ DoneCallback(t)
     )

(* lifespan runs recover_stuck_documents to its end *)
Sweep == RecoverPipeline \/ RecoverLlm

(* tasks alive at one time: one upload, or the two starts of one sweep,   *)
(* for every document                                                     *)
TaskSlots == 1..(2 * Cardinality(Docs))

Fairness ==
  /\ WF_vars(Sweep)
  /\ \A t \in TaskSlots : WF_vars(TaskStep(t))

LiveSpec == Init /\ [][Next]_vars /\ Fairness

(* ---------- the pipeline with documents being deleted ---------- *)
DeleteNext ==
  \/ Next
  \/ \E d \in Docs : delete_doc(d)
  \/ \E t \in TaskIds : P_DocumentGone(t)
  \/ \E t \in TaskIds : L_DocumentGone(t)

DeleteSpec == Init /\ [][DeleteNext]_vars

TypeOK ==
  /\ status \in [Docs -> DocumentStatus \cup {"absent", "deleted"}]
  /\ file \in [Docs -> FileKinds]
  /\ registry \in [Docs -> 0..Len(tasks)]
  /\ phase \in {"recover_pipeline", "recover_llm", "serving"}

(* ======================= claims ======================= *)
Doc(t) == tasks[t].doc

(* tasks that exist before and after the step *)
Surviving == {t \in TaskIds : t \in DOMAIN tasks'}

Moved(t) == tasks'[t] # tasks[t]

Backward(s1, s2) == Ordered(s1) /\ Ordered(s2) /\ Rank(s2) < Rank(s1)

(* C1: at most one pipeline execution per document id is in flight at any *)
(* time; a start request for an id that is still running creates no       *)
(* second running execution.                                              *)
C1_AtMostOneActive == \A d \in Docs : Cardinality(Active(d)) <= 1

(* C2: over pipeline steps, crashes and recoveries the persisted status   *)
(* never moves backwards in pending < extracting < chunking < embedding < *)
(* extracting_concepts < concepts_ready < ready, except to error.         *)
C2_NeverBackwards ==
  [][\A d \in Docs : ~Backward(status[d], status'[d])]_vars

(* C2 as amended: a backward move of the persisted status is written only *)
(* by an execution that startup recovery started; an execution started by *)
(* an upload never moves the status backwards.                            *)
C2_BackwardOnlyByRecovery ==
  [][\A d \in Docs :
        Backward(status[d], status'[d]) =>
          \E t \in Surviving :
             /\ Doc(t) = d
             /\ Moved(t)
             /\ tasks[t].origin \in {"recover_pipeline", "recover_llm"}]_vars

(* a recovered document that had chunk rows (so was in chunking or later) *)
(* is back in extracting                                                  *)
C2_Witness ==
  \E t \in TaskIds :
     /\ tasks[t].origin = "recover_pipeline"
     /\ tasks[t].pc = "extract"
     /\ status[Doc(t)] = "extracting"
     /\ ChunkRows(Doc(t)) # {}

(* C3: the sweep starts, from persisted status alone, a full pipeline     *)
(* execution for exactly the documents in extracting, chunking or         *)
(* embedding, and that execution begins by writing extracting; and an     *)
(* execution that runs only the LLM stage for exactly the documents in    *)
(* extracting_concepts.                                                   *)
LlmStagePcs ==
  {"get_document", "set_extracting_concepts", "concepts_query", "concepts_loop",
   "cards_query", "cards_loop", "set_concepts_ready", "except", "done"}

C3_RecoveryByStatus ==
  [][/\ (phase = "recover_pipeline" /\ phase' = "recover_llm") =>
          \A d \in Docs :
             (status[d] \in {"extracting", "chunking", "embedding"}) <=>
             (\E t \in (Len(tasks) + 1)..Len(tasks') :
                  /\ tasks'[t].doc = d
                  /\ tasks'[t].coro = "process_document"
                  /\ tasks'[t].pc = "set_extracting")
     /\ (phase = "recover_llm" /\ phase' = "serving") =>
          \A d \in Docs :
             (status[d] = "extracting_concepts") <=>
             (\E t \in (Len(tasks) + 1)..Len(tasks') :
                  /\ tasks'[t].doc = d
                  /\ tasks'[t].coro = "run_llm_stage_for_doc"
                  /\ tasks'[t].pc = "get_document")
     /\ \A t \in Surviving :
          /\ (tasks[t].pc = "set_extracting" /\ Moved(t)) =>
                status'[Doc(t)] = "extracting"
          /\ tasks'[t].coro = "run_llm_stage_for_doc" =>
                tasks'[t].pc \in LlmStagePcs]_vars

(* a document found in extracting_concepts is in its LLM-stage rerun, and *)
(* no full pipeline was started for it                                    *)
C3_Witness ==
  \E t \in TaskIds :
     /\ tasks[t].origin = "recover_llm"
     /\ tasks[t].pc = "concepts_query"
     /\ \A u \in TaskIds : tasks[u].doc = Doc(t) => u = t

(* C4: the execution recovery starts for a document found in              *)
(* extracting_concepts inserts no chunk row, writes or deletes no vector  *)
(* entry and never sets extracting, chunking or embedding; the document's *)
(* chunk rows do not change while it runs.                                *)
C4_LlmRerunKeepsChunks ==
  [][\A t \in Surviving :
        tasks[t].origin = "recover_llm" =>
          /\ ~Done(t) => ChunkRows(Doc(t))' = ChunkRows(Doc(t))
          /\ Moved(t) =>
               /\ chunks' = chunks
               /\ vectors' = vectors
               /\ status'[Doc(t)] \notin {"extracting", "chunking", "embedding"}]_vars

C4_Witness ==
  \E t \in TaskIds :
     /\ tasks[t].origin = "recover_llm"
     /\ Done(t)
     /\ status[Doc(t)] = "concepts_ready"
     /\ ChunkRows(Doc(t)) # {}

(* C5: the chunk rows of a document carry chunk_index 0..n-1, each value  *)
(* exactly once, in every reachable state.                                *)
C5_ChunkIndexContiguous ==
  \A d \in Docs :
     \A i \in 0..(Cardinality(ChunkRows(d)) - 1) :
        Cardinality({c \in ChunkRows(d) : c.chunk_index = i}) = 1

(* C6: an execution whose extraction reports needs_ocr ends with status   *)
(* needs_ocr; it inserts no chunk row, adds no vector, makes no LLM call  *)
(* (so no flashcard), and runs no later stage.                            *)
C6_NeedsOcrStops ==
  \A t \in TaskIds :
     tasks[t].needs_ocr =>
       /\ tasks[t].pc \in {"after_extract", "done"}
       /\ tasks[t].chunk_ids = <<>>
       /\ tasks[t].adds = 0
       /\ ~tasks[t].set_llm
       /\ ~tasks[t].llm_called
       /\ ChunkRows(Doc(t)) = {}
       /\ {v \in vectors : v.document_id = Doc(t)} = {}
       /\ \A c \in DOMAIN flashcards : c[1] # Doc(t)
       /\ Done(t) => status[Doc(t)] = "needs_ocr"

C6_Witness ==
  \E t \in TaskIds :
     tasks[t].needs_ocr /\ Done(t) /\ status[Doc(t)] = "needs_ocr"

C8_FailureStops ==
  [][\A t \in Surviving :
        /\ (tasks[t].raised \in {"extract", "insert_chunks", "add"} /\ Moved(t)) =>
             /\ ~tasks'[t].set_llm
             /\ ~tasks'[t].llm_called
             /\ chunks' = chunks
             /\ vectors' = vectors
             /\ flashcards' = flashcards
             /\ status'[Doc(t)] \in {status[Doc(t)], "error"}
        /\ (tasks'[t].raised \in {"extract", "insert_chunks", "add"}
              /\ tasks'[t].pc = "done") =>
             status'[Doc(t)] = "error"]_vars

(* the second vector batch failed: status error, first batch in the store *)
C8_Witness ==
  \E t \in TaskIds :
     /\ Done(t)
     /\ tasks[t].raised = "add"
     /\ tasks[t].adds >= 1
     /\ status[Doc(t)] = "error"

(* C9: the chunk rows of one document are all flagged has_embedding or    *)
(* all unflagged, in every reachable state.                               *)
C9_AllOrNoneEmbedded ==
  \A d \in Docs :
     \A c1, c2 \in ChunkRows(d) : c1.has_embedding = c2.has_embedding

(* C10: leaving the embedding stage, the execution writes                 *)
(* extracting_concepts if the llm_model_id or the llm_model_path it read  *)
(* is non-empty; otherwise the status goes from embedding to ready, the   *)
(* execution ends and has made no LLM call.                               *)
C10_LlmOnlyIfConfigured ==
  [][\A t \in Surviving :
        /\ (tasks[t].coro = "process_document" /\ tasks[t].pc = "decide" /\ Moved(t)) =>
             IF tasks[t].llm_model_id \/ tasks[t].llm_model_path
             THEN status'[Doc(t)] = "extracting_concepts"
             ELSE /\ status[Doc(t)] = "embedding"
                  /\ status'[Doc(t)] = "ready"
                  /\ tasks'[t].pc = "done"
        /\ tasks'[t].llm_called => tasks'[t].set_llm]_vars

C10_Witness ==
  \E t \in TaskIds :
     /\ tasks[t].coro = "process_document"
     /\ Done(t)
     /\ ~tasks[t].set_llm
     /\ ~tasks[t].llm_called
     /\ status[Doc(t)] = "ready"
     /\ \E c \in ChunkRows(Doc(t)) : c.has_embedding

(* C11: when chunking yields zero chunks, the status goes from chunking   *)
(* directly to ready and the execution ends there: it has inserted no     *)
(* chunk row, made no vector-store call and no LLM call, and the document *)
(* has no chunk, vector or flashcard.                                     *)
NoChunksPcs == {"set_extracting", "extract", "after_extract", "chunk", "except", "done"}

ZeroChunkFile(d) == ~file[d].needs_ocr /\ file[d].n = 0

C11_NoChunksToReady ==
  [][\A t \in Surviving :
        /\ (IsAt(t, "process_document", "chunk") /\ tasks[t].n = 0 /\ Moved(t)) =>
              /\ status[Doc(t)] = "chunking"
              /\ status'[Doc(t)] = "ready"
              /\ tasks'[t].pc = "done"
              /\ chunks' = chunks /\ vectors' = vectors /\ flashcards' = flashcards
        /\ (status[Doc(t)] # "absent" /\ ZeroChunkFile(Doc(t))) =>
              /\ tasks'[t].pc \in NoChunksPcs
              /\ tasks'[t].chunk_ids = <<>>
              /\ tasks'[t].adds = 0
              /\ ~tasks'[t].llm_called
              /\ ChunkRows(Doc(t))' = {}
              /\ \A v \in vectors' : v.document_id # Doc(t)]_vars

(* an execution whose chunking yielded nothing has ended, status ready *)
C11_Witness ==
  \E t \in TaskIds :
     /\ ZeroChunkFile(Doc(t))
     /\ tasks[t].pc = "done"
     /\ tasks[t].raised = "none"
     /\ status[Doc(t)] = "ready"

(* C12: the startup sweep runs exactly once per process start, first      *)
(* query then second query, and has started its recovery executions       *)
(* before any upload is accepted: the lifespan position only moves        *)
(* recover_pipeline -> recover_llm -> serving, goes back to the start     *)
(* only by a process restart, recovery executions are started only by     *)
(* those two moves and uploads are taken only in serving.                 *)
NewTasks == (Len(tasks) + 1)..Len(tasks')

C12_SweepBeforeUploads ==
  [][/\ phase' # phase =>
          \/ phase = "recover_pipeline" /\ phase' = "recover_llm" /\ crashes' = crashes
          \/ phase = "recover_llm" /\ phase' = "serving" /\ crashes' = crashes
          \/ phase' = "recover_pipeline" /\ crashes' = crashes + 1
     /\ crashes' # crashes => phase' = "recover_pipeline" /\ tasks' = <<>>
     /\ (\E d \in Docs : status[d] = "absent" /\ status'[d] # "absent") =>
          phase = "serving" /\ phase' = "serving"
     /\ \A t \in NewTasks :
          /\ tasks'[t].origin = "upload" => phase = "serving"
          /\ tasks'[t].origin = "recover_pipeline" =>
                phase = "recover_pipeline" /\ phase' = "recover_llm"
          /\ tasks'[t].origin = "recover_llm" =>
                phase = "recover_llm" /\ phase' = "serving"]_vars

(* after a restart the sweep has started a recovery execution and the     *)
(* application is serving                                                 *)
C12_Witness ==
  /\ crashes = 1
  /\ phase = "serving"
  /\ \E t \in TaskIds : tasks[t].origin = "recover_pipeline"

(* ---------- the scheduler ---------- *)
Sm2Done == sm2.out # <<>>

Sm2Out == sm2.out[1]

(* C13: for every review whose grade maps to a quality below the pass     *)
(* threshold (fail and hard), the result has repetitions 0 and interval   *)
(* 1, whatever the prior repetitions, interval and difficulty.            *)
C13_FailResets ==
  (Sm2Done /\ sm2.args.grade \in {0, 1}) =>
     /\ GRADE_QUALITY[sm2.args.grade + 1] < 3
     /\ ~Sm2Out.raised
     /\ Sm2Out.repetitions = 0
     /\ Sm2Out.interval = 1

(* grade hard on a card with a streak of 3 and interval 9 *)
C13_Witness ==
  /\ Sm2Done
  /\ sm2.args.grade = 1
  /\ sm2.args.repetitions = 3
  /\ sm2.args.interval = 9

(* C14: for a passing grade (good, easy) the review sets repetitions to   *)
(* the prior repetitions plus 1 and the interval to 1 for the first       *)
(* successful repetition, 6 for the second and                            *)
(* max(1, round(previous_interval * (2.5 - 1.2 * difficulty))) later.     *)
PassInterval(repetitions, interval, difficulty) ==
  IF repetitions = 0 THEN 1
  ELSE IF repetitions = 1 THEN 6
  ELSE Max(1, RoundHalfEven(interval * (25000 - 12 * difficulty), 10000))

C14_PassRule ==
  [][\A r \in ReqIds :
        (/\ requests[r].pc = "compute"
         /\ requests[r].grade \in {2, 3}
         /\ Live(requests[r].card_id)
         /\ requests'[r] # requests[r]) =>
           /\ requests'[r].new # <<>>
           /\ requests'[r].new[1].repetitions = requests[r].card[1].repetitions + 1
           /\ requests'[r].new[1].interval =
                 PassInterval(requests[r].card[1].repetitions,
                              requests[r].card[1].interval,
                              requests[r].card[1].difficulty)]_vars

(* C15: grade easy (3) on repetitions 1, interval 6, difficulty 0.3       *)
(* yields repetitions 2, interval 13 and next_review = today + 13.        *)
C15_Scenario ==
  /\ Sm2Done
  /\ sm2.args.grade = 3
  /\ sm2.args.repetitions = 1
  /\ sm2.args.interval = 6
  /\ sm2.args.difficulty = 300

C15_Interval13 ==
  C15_Scenario =>
     /\ Sm2Out.repetitions = 2
     /\ Sm2Out.interval = 13
     /\ Sm2Out.next_review = {sm2.args.day + 13}

(* C15 as amended: the same submission yields repetitions 2, interval 6   *)
(* (the second successful repetition) and next_review = today + 6.        *)
C15_Interval6 ==
  C15_Scenario =>
     /\ ~Sm2Out.raised
     /\ Sm2Out.repetitions = 2
     /\ Sm2Out.interval = 6
     /\ Sm2Out.next_review = {sm2.args.day + 6}

C15_Witness == C15_Scenario /\ sm2.args.day = 1

(* C16: a stored flashcard's difficulty lies in [0.1, 0.9] in every       *)
(* reachable state, for every value the LLM supplies at creation and      *)
(* after any sequence of reviews; so does every difficulty a review       *)
(* computes or returns.                                                   *)
InDifficultyRange(x) == 100 <= x /\ x <= 900

C16_DifficultyClamped ==
  /\ \A c \in CardIds : Live(c) => InDifficultyRange(cards[c].difficulty)
  /\ \A r \in ReqIds :
        /\ requests[r].new # <<>> => InDifficultyRange(requests[r].new[1].difficulty)
        /\ requests[r].resp.body # <<>> =>
              InDifficultyRange(requests[r].resp.body[1].difficulty)

(* a card generated at the upper bound was graded fail and is still at    *)
(* the upper bound                                                        *)
C16_Witness ==
  \E r \in ReqIds :
     /\ requests[r].new # <<>>
     /\ requests[r].grade = 0
     /\ requests[r].card[1].difficulty = 900
     /\ requests[r].card[1].repetitions = 0
     /\ Live(requests[r].card_id)
     /\ cards[requests[r].card_id].difficulty = 900

(* C17: a concept's mastery lies in [0.0, 1.0] after any sequence of      *)
(* reviews with any grades, including fail at 0.0 and easy at 1.0; so     *)
(* does every mastery value a review is about to write.                   *)
InMasteryRange(x) == 0 <= x /\ x <= 1000

C17_MasteryClamped ==
  /\ \A n \in ConceptIds : InMasteryRange(concepts[n].mastery)
  /\ \A r \in ReqIds : \A j \in 1..Len(requests[r].updates) :
        InMasteryRange(requests[r].updates[j].mastery)

(* grade easy on a card whose concept is at 1.0: the value about to be   *)
(* written is 1.0 again                                                   *)
C17_Witness ==
  \E r \in ReqIds :
     /\ requests[r].pc = "mastery_write"
     /\ requests[r].grade = 3
     /\ concepts[requests[r].updates[1].cid].mastery = 1000
     /\ requests[r].updates[1].mastery = 1000

(* C18: a stored flashcard's interval is at least 1 in every reachable    *)
(* state, at creation and after any sequence of reviews; so is every      *)
(* interval a review returns.                                             *)
C18_IntervalAtLeastOne ==
  /\ \A c \in CardIds : Live(c) => cards[c].interval >= 1
  /\ \A r \in ReqIds :
        requests[r].resp.body # <<>> => requests[r].resp.body[1].interval >= 1

(* a card on its third successful repetition, interval from the formula *)
C18_Witness ==
  \E c \in CardIds :
     /\ Live(c)
     /\ cards[c].repetitions = 3
     /\ cards[c].interval > 6

(* C19: a failure of the concept-mastery update never fails the review:   *)
(* the new repetitions, interval, difficulty and next_review were         *)
(* persisted before the mastery update began, no step of the mastery      *)
(* update touches the card or the computed values, and the request        *)
(* answers 200 with those values whether the mastery update failed or     *)
(* not.                                                                   *)
Persisted(row, new) ==
  /\ row.repetitions = new.repetitions
  /\ row.interval = new.interval
  /\ row.difficulty = new.difficulty
  /\ row.next_review = new.next_review

C19_MasteryFailureAbsorbed ==
  [][\A r \in ReqIds :
        requests'[r] # requests[r] =>
          /\ (requests[r].pc = "compute" /\ requests'[r].pc \in {"mastery_read", "return"}) =>
                Persisted(cards'[requests[r].card_id], requests'[r].new[1])
          /\ requests[r].pc \in {"mastery_read", "mastery_write"} =>
                /\ cards' = cards
                /\ requests'[r].new = requests[r].new
                /\ requests'[r].pc \in {"mastery_write", "return"}
          /\ requests[r].pc = "return" =>
                requests'[r].resp = Response(200, requests[r].new)]_vars

(* the mastery update failed and the request is about to answer *)
C19_Witness ==
  \E r \in ReqIds :
     /\ requests[r].pc = "return"
     /\ requests[r].mastery_failed
     /\ Live(requests[r].card_id)
     /\ Persisted(cards[requests[r].card_id], requests[r].new[1])

(* ---------- the chunker ---------- *)
(* C20: for every non-empty chunk sequence chunk_pages returns, the       *)
(* ranges [char_start, char_end) cover the concatenated text without a    *)
(* hole: the first chunk starts at 0, each following chunk starts at or   *)
(* before the end of the one before it, and the last chunk ends at the    *)
(* end of the text.                                                       *)
C20_RangesCoverText ==
  (ck.pc = "done" /\ ck.chunks # <<>>) =>
     /\ ck.chunks[1].char_start = 0
     /\ \A i \in 1..(Len(ck.chunks) - 1) :
           ck.chunks[i + 1].char_start <= ck.chunks[i].char_end
     /\ ck.chunks[Len(ck.chunks)].char_end = Len(FullText(ck.pages))

(* C21: every chunk chunk_pages returns has non-empty content after       *)
(* trimming, for every input and every target/overlap setting; a buffer   *)
(* that trims to nothing produces no chunk and consumes no chunk_index    *)
(* (the indexes of the chunks are 0, 1, 2, ... without a gap).            *)
C21_NoEmptyChunk ==
  ck.pc \in {"loop", "done"} =>
    \A i \in 1..Len(ck.chunks) :
       /\ ck.chunks[i].content # <<>>
       /\ strip(ck.chunks[i].content) = ck.chunks[i].content
       /\ ck.chunks[i].chunk_index = i - 1

(* a whitespace-only buffer was closed before the first chunk: the chunk  *)
(* that follows it still has index 0                                      *)
C21_Witness ==
  /\ ck.pc = "done"
  /\ Len(ck.chunks) = 2
  /\ ck.chunks[1].char_start > 0
  /\ ck.chunks[1].chunk_index = 0
  /\ ck.chunks[2].chunk_index = 1

(* the paragraphs of the text with the range of their trimmed content *)
RECURSIVE ParagraphStart(_)
ParagraphStart(k) ==
  IF k = 1 THEN 0 ELSE ParagraphStart(k - 1) + Len(Paragraphs[k - 1])

LeadingBlank(text) ==
  CHOOSE n \in 0..Len(text) :
     /\ \A j \in 1..n : text[j] = NL
     /\ n = Len(text) \/ text[n + 1] # NL

CoreStart(k) == ParagraphStart(k) + LeadingBlank(Paragraphs[k])

CoreEnd(k) == CoreStart(k) + Len(strip(Paragraphs[k]))

LongParagraphs ==
  {k \in 1..Len(Paragraphs) : Len(strip(Paragraphs[k])) > ck.target_chars}

ChunksHolding(k) ==
  {i \in 1..Len(ck.chunks) :
     /\ ck.chunks[i].char_start <= CoreStart(k)
     /\ CoreEnd(k) <= ck.chunks[i].char_end}

(* C22: a paragraph longer than the target size is never cut: it appears  *)
(* whole in exactly one chunk of the output (no other chunk contains the  *)
(* whole paragraph), for every target and overlap setting.                *)
C22_LongParagraphInOneChunk ==
  ck.pc = "done" =>
    \A k \in LongParagraphs : Cardinality(ChunksHolding(k)) = 1

(* C33: when a buffer is closed, the next one is seeded with its trailing *)
(* overlap_chars characters, or with the whole buffer if it is shorter:   *)
(* for consecutive chunks, char_end of the earlier minus char_start of    *)
(* the later is min(overlap_chars, length of the closed buffer), for      *)
(* every overlap_chars >= 0.                                              *)
C33_OverlapIsMin ==
  ck.pc \in {"loop", "done"} =>
    \A i \in 1..(Len(ck.chunks) - 1) :
       ck.chunks[i].char_end - ck.chunks[i + 1].char_start
         = Min(ck.overlap_chars, ck.chunks[i].char_end - ck.chunks[i].char_start)

(* C34: the page_number of every chunk is the number of the page whose    *)
(* recorded start offset is the greatest one not exceeding the chunk's    *)
(* char_start; no chunk is attributed to a page that starts after its     *)
(* char_start, and every chunk of a non-empty page list has a page number.*)
C34_PageOfGreatestOffset ==
  ck.pc \in {"loop", "done"} =>
    \A i \in 1..Len(ck.chunks) :
       \E k \in 1..Len(ck.pages) :
          /\ ck.chunks[i].page_number = {PageOffsets(ck.pages)[k].page_number}
          /\ PageOffsets(ck.pages)[k].offset <= ck.chunks[i].char_start
          /\ \A m \in 1..Len(ck.pages) :
                PageOffsets(ck.pages)[m].offset <= ck.chunks[i].char_start
                  => PageOffsets(ck.pages)[m].offset <= PageOffsets(ck.pages)[k].offset

(* a chunk that begins on the second page, after a chunk of the first *)
C34_Witness ==
  /\ ck.pc = "done"
  /\ Len(ck.chunks) = 2
  /\ ck.chunks[1].page_number = {1}
  /\ ck.chunks[2].page_number = {2}
  /\ ck.chunks[2].char_start > PageOffsets(ck.pages)[2].offset

(* ---------- the concept graph ---------- *)
(* C23: at any time there is at most one Concept node per exact name, for *)
(* any interleaving of pipelines of different documents that extract the  *)
(* same concept name concurrently.                                        *)
C23_OneNodePerName ==
  \A n1 \in ex.nodes, n2 \in ex.nodes : n1.name = n2.name => n1 = n2

(* C29: a per-chunk failure other than capability-unavailable (LLM call   *)
(* error, malformed or wrongly shaped response, store write failure)      *)
(* never aborts the sub-stage: every later eligible chunk of the document *)
(* is still submitted to the LLM in that run.                             *)
C29_FailureDoesNotAbort ==
  \A d \in ExDocs :
     (Run(d).pc \in {"returned", "raised"} /\ Run(d).unavailable_at = 0) =>
        /\ Run(d).pc = "returned"
        /\ \A k \in Run(d).failed : \A j \in (k + 1)..Len(Run(d).rows) :
              Run(d).rows[j].eligible => j \in Run(d).called

(* C30: a relationship edge is created between two concepts only if both  *)
(* endpoint names were resolved to concept ids (upsert_concept returned)  *)
(* while processing the same chunk's response; a relationship naming a    *)
(* concept resolved only in an earlier chunk, or whose upsert failed,     *)
(* creates no edge.                                                       *)
C30_EdgeOnlyWithinChunk ==
  \A e \in ex.edge_log :
     /\ <<e.doc, e.k, e.from_name, e.from_id>> \in ex.upserts
     /\ <<e.doc, e.k, e.to_name, e.to_id>> \in ex.upserts

(* the last chunk of d1 named A -> B, B was resolved in it, A only in the *)
(* first chunk: the loop is over and the chunk created no edge            *)
C30_Witness ==
  /\ Run("d1").pc = "count"
  /\ Run("d1").k = 3
  /\ Run("d1").result.relationships = <<<<"A", "B">>>>
  /\ Run("d1").name_to_id["A"] = 0
  /\ Run("d1").name_to_id["B"] # 0
  /\ \E u \in ex.upserts : u[1] = "d1" /\ u[2] = 1 /\ u[3] = "A"
  /\ \E e \in ex.edge_log : e.doc = "d1" /\ e.k = 1
  /\ ~\E e \in ex.edge_log : e.doc = "d1" /\ e.k = 3

(* the concepts linked to a document by EXTRACTED_FROM edges *)
LinkedConcepts(d) == {x[1] : x \in {y \in ex.extracted_from : y[2] = d}}

(* C31: when concept extraction for a document completes, the persisted   *)
(* concept_count of the document is the number of concepts linked to it   *)
(* by attribution edges, every linked concept counted once (also when the *)
(* run linked none).                                                      *)
C31_CountIsLinkedConcepts ==
  ex.pc = "running" =>
    \A d \in ExDocs :
       Run(d).pc = "returned" =>
          ex.concept_count[d] = Cardinality(LinkedConcepts(d))

(* ---------- the LLM sub-stages inside the pipeline ---------- *)
Gained(t, s) == s \notin tasks[t].soft /\ s \in tasks'[t].soft

(* C28: when the LLM call for a chunk signals capability-unavailable, the *)
(* sub-stage makes no LLM call for any later chunk of that run and        *)
(* returns normally; the document's status is not set to error because of *)
(* it.                                                                    *)
C28_UnavailableStops ==
  /\ [](\A t \in TaskIds :
         /\ tasks[t].pc = "concepts_loop" => "concepts_unavailable" \notin tasks[t].soft
         /\ tasks[t].pc = "cards_loop" => "cards_unavailable" \notin tasks[t].soft)
  /\ [][\A t \in 1..Min(Len(tasks), Len(tasks')) :
          /\ Gained(t, "concepts_unavailable") =>
                tasks'[t].pc = "cards_query" /\ status' = status
          /\ Gained(t, "cards_unavailable") =>
                tasks'[t].pc = "set_concepts_ready" /\ status' = status]_vars

(* unavailable was signalled for the first of two chunks: the loop is     *)
(* left with the second chunk not submitted                               *)
C28_Witness ==
  \E t \in TaskIds :
     /\ tasks[t].pc = "cards_query"
     /\ "concepts_unavailable" \in tasks[t].soft
     /\ Len(tasks[t].rows) = 2
     /\ tasks[t].k = 2

(* ---------- stages and their status ---------- *)
ChunkIds(rows) == {c.id : c \in rows}

LlmCall(t) ==
  /\ t <= Len(tasks')
  /\ tasks[t].pc \in {"concepts_loop", "cards_loop"}
  /\ tasks'[t].k = tasks[t].k + 1

(* C25: within one pipeline execution every stage's work is done only     *)
(* under its own committed status: whenever a chunk row is inserted the   *)
(* persisted status is chunking, whenever a vector-store write happens it *)
(* is embedding, and whenever an LLM call is made it is                   *)
(* extracting_concepts.                                                   *)
C25_StageUnderOwnStatus ==
  [][\A d \in Docs :
       /\ ~(ChunkIds(ChunkRows(d)') \subseteq ChunkIds(ChunkRows(d))) =>
             status[d] = "chunking"
       /\ ~({v \in vectors' : v.document_id = d} \subseteq vectors) =>
             status[d] = "embedding"
       /\ (\E t \in TaskIds : tasks[t].doc = d /\ LlmCall(t)) =>
             status[d] = "extracting_concepts"]_vars

(* ---------- the registry ---------- *)
(* C27: the registry map holds an entry for a document id exactly while   *)
(* an execution for that id is in flight: is_processing(id) is true       *)
(* whenever an execution for id is running and false once none is, for    *)
(* any order of start calls and completion callbacks.                     *)
C27_RegistryTracksExecutions ==
  \A d \in Docs : is_processing(d) <=> Active(d) # {}

(* ---------- the purge before embedding ---------- *)
VectorIds(d) == {v.id : v \in {w \in vectors : w.document_id = d}}

OwnChunkIds(t) == {tasks[t].chunk_ids[j] : j \in 1..Len(tasks[t].chunk_ids)}

(* the step of task t that completes the embedding stage *)
EmbeddingCompletes(t) ==
  /\ t <= Len(tasks')
  /\ tasks[t].pc = "add"
  /\ tasks'[t].pc = "read_model_id"

C24_NoRowsAfterDelete ==
  \A d \in Docs :
     status[d] = "deleted" =>
        /\ ChunkRows(d) = {}
        /\ \A c \in DOMAIN flashcards : c[1] # d

(* the document was deleted under an execution that had already read its  *)
(* embedded chunk rows and goes on generating flashcards for them         *)
C24_Witness ==
  \E t \in TaskIds :
     /\ status[tasks[t].doc] = "deleted"
     /\ tasks[t].pc = "cards_loop"
     /\ tasks[t].k = 2
     /\ Len(tasks[t].rows) = 2

(* ---------- reviews and concept mastery ---------- *)
(* the review in slot r completes its mastery update in this step *)
MasteryApplied(r) ==
  /\ requests[r].pc = "mastery_write"
  /\ requests'[r].pc = "return"
  /\ ~requests'[r].mastery_failed

(* C32: a review with grade g of a card that has a source chunk changes   *)
(* the mastery of every concept attributed to that chunk by -0.05, 0,     *)
(* +0.05, +0.10 for fail, hard, good, easy (then clamped) and the mastery *)
(* of no other concept; a card without a source chunk changes no concept. *)
C32_MasteryDeltaOnLinkedConcepts ==
  [][\A r \in ReqIds :
       /\ MasteryApplied(r) =>
            \A n \in ConceptIds :
               concepts'[n].mastery =
                 IF requests[r].card[1].chunk_id \in concepts[n].chunk_ids
                 THEN NewMastery(concepts[n].mastery, MASTERY_DELTA[requests[r].grade + 1])
                 ELSE concepts[n].mastery
       /\ (requests[r].pc = "compute" /\ requests[r].card[1].chunk_id = "")
            => requests'[r].pc \notin {"mastery_read", "mastery_write"}
    ]_vars

(* both slots hold a review of card c that has written the card *)
BothWrote(c) ==
  /\ Live(c)
  /\ \A r \in ReqIds : requests[r].card_id = c /\ requests[r].new # <<>>

(* the schedule of the card after review a, made from the row a read,     *)
(* followed by review b                                                   *)
OneAfterTheOther(a, b) ==
  compute_sm2(requests[b].grade, requests[a].new[1].repetitions,
              requests[a].new[1].interval, requests[a].new[1].difficulty, today)

(* C40: two review submissions for the same card that overlap in time     *)
(* leave the repetitions, interval and difficulty of the card equal to    *)
(* the result of applying the two reviews one after the other in some     *)
(* order: no review is lost between reading the card and writing it.      *)
C40_ReviewsSerialisable ==
  \A c \in CardIds :
     BothWrote(c) =>
        \E a, b \in ReqIds :
           /\ a # b
           /\ cards[c].repetitions = OneAfterTheOther(a, b).repetitions
           /\ cards[c].interval = OneAfterTheOther(a, b).interval
           /\ cards[c].difficulty = OneAfterTheOther(a, b).difficulty

(* ---------- the rerun of the LLM stage ---------- *)
(* both sub-stages of the execution failed: each raised or found the LLM  *)
(* unavailable                                                            *)
LlmFailedEntirely(r) ==
  /\ r.soft \cap {"concepts_raised", "concepts_unavailable"} # {}
  /\ r.soft \cap {"cards_raised", "cards_unavailable"} # {}

StartedBySweep(d) ==
  {t \in TaskIds : tasks[t].doc = d
                      /\ tasks[t].origin \in {"recover_pipeline", "recover_llm"}}

(* C37: one recovery sweep starts one execution for a stuck document: no  *)
(* document receives both a full-pipeline restart and an LLM-stage rerun  *)
(* from the same sweep, although the restarted pipelines may advance      *)
(* their status while the sweep awaits its second status query.           *)
C37_OneExecutionPerSweep ==
  \A d \in Docs : Cardinality(StartedBySweep(d)) <= 1

(* ---------- the embedded flag ---------- *)
(* C38: in every reachable state, also after a crash and the recovery,    *)
(* every chunk row flagged has_embedding has an entry with its chunk id   *)
(* in the vector store, so that the LLM sub-stages, which select chunks   *)
(* by has_embedding, work on chunks that are embedded.                    *)
C38_FlaggedChunkHasVector ==
  \A c \in chunks :
     c.has_embedding => \E v \in vectors : v.id = c.id

(* ---------- flashcards across a rerun ---------- *)
(* C39: re-running the LLM stage after a crash in extracting_concepts is  *)
(* idempotent on flashcards: a chunk whose flashcards were committed      *)
(* before the crash gets no second copy, so the flashcard rows after the  *)
(* rerun are those of one uninterrupted run (one copy of the cards of     *)
(* every chunk).                                                          *)
C39_RerunAddsNoSecondCopy ==
  [][\A t \in Surviving :
        (tasks[t].coro = "run_llm_stage_for_doc" /\ Moved(t)) =>
           \A x \in DOMAIN flashcards' :
              x \notin DOMAIN flashcards \/ flashcards'[x] = flashcards[x]]_vars

(* ---------- termination ---------- *)
TerminalStatus == {"ready", "concepts_ready", "needs_ocr", "error"}

(* C36: with finitely many crashes, each followed by the startup sweep,   *)
(* and fair scheduling of the executions, every uploaded document         *)
(* eventually has a terminal status; none stays forever in pending,       *)
(* extracting, chunking, embedding or extracting_concepts.                *)
C36_EventuallyTerminal ==
  \A d \in Docs :
     (status[d] # "absent") ~> (status[d] \in TerminalStatus)

====
